---------------------------- MODULE Spec2Model ----------------------------
(***************************************************************************)
(* Model of the vibechess match execution engine:                          *)
(*   backend/game_engine.py  run_game, validate_and_get_move, ...          *)
(*   backend/main.py         submit_prompt, game_events                    *)
(*   sse_manager.py          SSEManager                                    *)
(*   backend/models.py       Game, Move                                    *)
(*                                                                         *)
(* Granularity: one action per suspension point of a coroutine.  An action *)
(* is the effect of the awaited operation (a database read or commit, the  *)
(* oracle's answer, a sleep) followed by the code that runs until the      *)
(* coroutine awaits again.  asyncio.Queue.put on an unbounded queue never  *)
(* suspends, so a broadcast is part of the action that calls it.           *)
(***************************************************************************)
EXTENDS Naturals, Integers, Sequences, FiniteSets, TLC

NULL == "None"

(***************************************************************************)
(* Rules engine (python-chess) on fragments of chess.                      *)
(*                                                                         *)
(* The game tree of chess cannot be enumerated, so the rules engine is     *)
(* tabulated on two fragments: the positions reachable by legal moves and  *)
(* null moves, within the tabulated depth, from the standard start         *)
(* position (StartFen, the position models.Game gives a new game) and from *)
(* EndgameFen, the position a recorded game of 64 plies (GameLine) reaches *)
(* from the standard start position.  Each entry is what python-chess      *)
(* computes for that position: board.turn, board.is_game_over(),           *)
(* board.outcome(), str(board), the full set board.legal_moves with each   *)
(* move's uci(), board.san(move) and the board.fen() after                 *)
(* board.push(move), and the fen() after pushing chess.Move.null().        *)
(* `expanded' says that the entry lists its moves.  No tabulated move list *)
(* has a castling move or an en passant capture in it: none is legal in    *)
(* the expanded positions.  The last entry is a two-knight position used   *)
(* for ambiguous notation.                                                 *)
(***************************************************************************)
\* chess.STARTING_FEN, the default of models.Game.board_fen
StartFen == "rnbqkbnr/pppppppp/8/8/8/8/PPPPPPPP/RNBQKBNR w KQkq - 0 1"

PositionTable ==
  {
  [fen |-> "rnbqkbnr/pppppppp/8/8/8/8/PPPPPPPP/RNBQKBNR w KQkq - 0 1", turn |-> "w", expanded |-> TRUE, over |-> FALSE, result |-> "unknown", termination |-> "unknown",
   null_fen |-> "rnbqkbnr/pppppppp/8/8/8/8/PPPPPPPP/RNBQKBNR b KQkq - 1 1",
   ascii |-> "r n b q k b n r\np p p p p p p p\n. . . . . . . .\n. . . . . . . .\n. . . . . . . .\n. . . . . . . .\nP P P P P P P P\nR N B Q K B N R",
   moves |-> {[uci |-> "a2a3", san |-> "a3", piece |-> "P", ffile |-> "a", frank |-> "2", to |-> "a3", promo |-> "", fen |-> "rnbqkbnr/pppppppp/8/8/8/P7/1PPPPPPP/RNBQKBNR b KQkq - 0 1"],
             [uci |-> "a2a4", san |-> "a4", piece |-> "P", ffile |-> "a", frank |-> "2", to |-> "a4", promo |-> "", fen |-> "rnbqkbnr/pppppppp/8/8/P7/8/1PPPPPPP/RNBQKBNR b KQkq - 0 1"],
             [uci |-> "b1c3", san |-> "Nc3", piece |-> "N", ffile |-> "b", frank |-> "1", to |-> "c3", promo |-> "", fen |-> "rnbqkbnr/pppppppp/8/8/8/2N5/PPPPPPPP/R1BQKBNR b KQkq - 1 1"],
             [uci |-> "b1a3", san |-> "Na3", piece |-> "N", ffile |-> "b", frank |-> "1", to |-> "a3", promo |-> "", fen |-> "rnbqkbnr/pppppppp/8/8/8/N7/PPPPPPPP/R1BQKBNR b KQkq - 1 1"],
             [uci |-> "b2b3", san |-> "b3", piece |-> "P", ffile |-> "b", frank |-> "2", to |-> "b3", promo |-> "", fen |-> "rnbqkbnr/pppppppp/8/8/8/1P6/P1PPPPPP/RNBQKBNR b KQkq - 0 1"],
             [uci |-> "b2b4", san |-> "b4", piece |-> "P", ffile |-> "b", frank |-> "2", to |-> "b4", promo |-> "", fen |-> "rnbqkbnr/pppppppp/8/8/1P6/8/P1PPPPPP/RNBQKBNR b KQkq - 0 1"],
             [uci |-> "c2c3", san |-> "c3", piece |-> "P", ffile |-> "c", frank |-> "2", to |-> "c3", promo |-> "", fen |-> "rnbqkbnr/pppppppp/8/8/8/2P5/PP1PPPPP/RNBQKBNR b KQkq - 0 1"],
             [uci |-> "c2c4", san |-> "c4", piece |-> "P", ffile |-> "c", frank |-> "2", to |-> "c4", promo |-> "", fen |-> "rnbqkbnr/pppppppp/8/8/2P5/8/PP1PPPPP/RNBQKBNR b KQkq - 0 1"],
             [uci |-> "d2d3", san |-> "d3", piece |-> "P", ffile |-> "d", frank |-> "2", to |-> "d3", promo |-> "", fen |-> "rnbqkbnr/pppppppp/8/8/8/3P4/PPP1PPPP/RNBQKBNR b KQkq - 0 1"],
             [uci |-> "d2d4", san |-> "d4", piece |-> "P", ffile |-> "d", frank |-> "2", to |-> "d4", promo |-> "", fen |-> "rnbqkbnr/pppppppp/8/8/3P4/8/PPP1PPPP/RNBQKBNR b KQkq - 0 1"],
             [uci |-> "e2e3", san |-> "e3", piece |-> "P", ffile |-> "e", frank |-> "2", to |-> "e3", promo |-> "", fen |-> "rnbqkbnr/pppppppp/8/8/8/4P3/PPPP1PPP/RNBQKBNR b KQkq - 0 1"],
             [uci |-> "e2e4", san |-> "e4", piece |-> "P", ffile |-> "e", frank |-> "2", to |-> "e4", promo |-> "", fen |-> "rnbqkbnr/pppppppp/8/8/4P3/8/PPPP1PPP/RNBQKBNR b KQkq - 0 1"],
             [uci |-> "f2f3", san |-> "f3", piece |-> "P", ffile |-> "f", frank |-> "2", to |-> "f3", promo |-> "", fen |-> "rnbqkbnr/pppppppp/8/8/8/5P2/PPPPP1PP/RNBQKBNR b KQkq - 0 1"],
             [uci |-> "f2f4", san |-> "f4", piece |-> "P", ffile |-> "f", frank |-> "2", to |-> "f4", promo |-> "", fen |-> "rnbqkbnr/pppppppp/8/8/5P2/8/PPPPP1PP/RNBQKBNR b KQkq - 0 1"],
             [uci |-> "g1h3", san |-> "Nh3", piece |-> "N", ffile |-> "g", frank |-> "1", to |-> "h3", promo |-> "", fen |-> "rnbqkbnr/pppppppp/8/8/8/7N/PPPPPPPP/RNBQKB1R b KQkq - 1 1"],
             [uci |-> "g1f3", san |-> "Nf3", piece |-> "N", ffile |-> "g", frank |-> "1", to |-> "f3", promo |-> "", fen |-> "rnbqkbnr/pppppppp/8/8/8/5N2/PPPPPPPP/RNBQKB1R b KQkq - 1 1"],
             [uci |-> "g2g3", san |-> "g3", piece |-> "P", ffile |-> "g", frank |-> "2", to |-> "g3", promo |-> "", fen |-> "rnbqkbnr/pppppppp/8/8/8/6P1/PPPPPP1P/RNBQKBNR b KQkq - 0 1"],
             [uci |-> "g2g4", san |-> "g4", piece |-> "P", ffile |-> "g", frank |-> "2", to |-> "g4", promo |-> "", fen |-> "rnbqkbnr/pppppppp/8/8/6P1/8/PPPPPP1P/RNBQKBNR b KQkq - 0 1"],
             [uci |-> "h2h3", san |-> "h3", piece |-> "P", ffile |-> "h", frank |-> "2", to |-> "h3", promo |-> "", fen |-> "rnbqkbnr/pppppppp/8/8/8/7P/PPPPPPP1/RNBQKBNR b KQkq - 0 1"],
             [uci |-> "h2h4", san |-> "h4", piece |-> "P", ffile |-> "h", frank |-> "2", to |-> "h4", promo |-> "", fen |-> "rnbqkbnr/pppppppp/8/8/7P/8/PPPPPPP1/RNBQKBNR b KQkq - 0 1"]}],
  [fen |-> "rnbqkbnr/pppppppp/8/8/8/P7/1PPPPPPP/RNBQKBNR b KQkq - 0 1", turn |-> "b", expanded |-> FALSE, over |-> FALSE, result |-> "unknown", termination |-> "unknown",
   null_fen |-> "rnbqkbnr/pppppppp/8/8/8/P7/1PPPPPPP/RNBQKBNR w KQkq - 1 2",
   ascii |-> "r n b q k b n r\np p p p p p p p\n. . . . . . . .\n. . . . . . . .\n. . . . . . . .\nP . . . . . . .\n. P P P P P P P\nR N B Q K B N R",
   moves |-> {}],
  [fen |-> "rnbqkbnr/pppppppp/8/8/P7/8/1PPPPPPP/RNBQKBNR b KQkq - 0 1", turn |-> "b", expanded |-> FALSE, over |-> FALSE, result |-> "unknown", termination |-> "unknown",
   null_fen |-> "rnbqkbnr/pppppppp/8/8/P7/8/1PPPPPPP/RNBQKBNR w KQkq - 1 2",
   ascii |-> "r n b q k b n r\np p p p p p p p\n. . . . . . . .\n. . . . . . . .\nP . . . . . . .\n. . . . . . . .\n. P P P P P P P\nR N B Q K B N R",
   moves |-> {}],
  [fen |-> "rnbqkbnr/pppppppp/8/8/8/2N5/PPPPPPPP/R1BQKBNR b KQkq - 1 1", turn |-> "b", expanded |-> FALSE, over |-> FALSE, result |-> "unknown", termination |-> "unknown",
   null_fen |-> "rnbqkbnr/pppppppp/8/8/8/2N5/PPPPPPPP/R1BQKBNR w KQkq - 2 2",
   ascii |-> "r n b q k b n r\np p p p p p p p\n. . . . . . . .\n. . . . . . . .\n. . . . . . . .\n. . N . . . . .\nP P P P P P P P\nR . B Q K B N R",
   moves |-> {}],
  [fen |-> "rnbqkbnr/pppppppp/8/8/8/N7/PPPPPPPP/R1BQKBNR b KQkq - 1 1", turn |-> "b", expanded |-> FALSE, over |-> FALSE, result |-> "unknown", termination |-> "unknown",
   null_fen |-> "rnbqkbnr/pppppppp/8/8/8/N7/PPPPPPPP/R1BQKBNR w KQkq - 2 2",
   ascii |-> "r n b q k b n r\np p p p p p p p\n. . . . . . . .\n. . . . . . . .\n. . . . . . . .\nN . . . . . . .\nP P P P P P P P\nR . B Q K B N R",
   moves |-> {}],
  [fen |-> "rnbqkbnr/pppppppp/8/8/8/1P6/P1PPPPPP/RNBQKBNR b KQkq - 0 1", turn |-> "b", expanded |-> FALSE, over |-> FALSE, result |-> "unknown", termination |-> "unknown",
   null_fen |-> "rnbqkbnr/pppppppp/8/8/8/1P6/P1PPPPPP/RNBQKBNR w KQkq - 1 2",
   ascii |-> "r n b q k b n r\np p p p p p p p\n. . . . . . . .\n. . . . . . . .\n. . . . . . . .\n. P . . . . . .\nP . P P P P P P\nR N B Q K B N R",
   moves |-> {}],
  [fen |-> "rnbqkbnr/pppppppp/8/8/1P6/8/P1PPPPPP/RNBQKBNR b KQkq - 0 1", turn |-> "b", expanded |-> FALSE, over |-> FALSE, result |-> "unknown", termination |-> "unknown",
   null_fen |-> "rnbqkbnr/pppppppp/8/8/1P6/8/P1PPPPPP/RNBQKBNR w KQkq - 1 2",
   ascii |-> "r n b q k b n r\np p p p p p p p\n. . . . . . . .\n. . . . . . . .\n. P . . . . . .\n. . . . . . . .\nP . P P P P P P\nR N B Q K B N R",
   moves |-> {}],
  [fen |-> "rnbqkbnr/pppppppp/8/8/8/2P5/PP1PPPPP/RNBQKBNR b KQkq - 0 1", turn |-> "b", expanded |-> FALSE, over |-> FALSE, result |-> "unknown", termination |-> "unknown",
   null_fen |-> "rnbqkbnr/pppppppp/8/8/8/2P5/PP1PPPPP/RNBQKBNR w KQkq - 1 2",
   ascii |-> "r n b q k b n r\np p p p p p p p\n. . . . . . . .\n. . . . . . . .\n. . . . . . . .\n. . P . . . . .\nP P . P P P P P\nR N B Q K B N R",
   moves |-> {}],
  [fen |-> "rnbqkbnr/pppppppp/8/8/2P5/8/PP1PPPPP/RNBQKBNR b KQkq - 0 1", turn |-> "b", expanded |-> FALSE, over |-> FALSE, result |-> "unknown", termination |-> "unknown",
   null_fen |-> "rnbqkbnr/pppppppp/8/8/2P5/8/PP1PPPPP/RNBQKBNR w KQkq - 1 2",
   ascii |-> "r n b q k b n r\np p p p p p p p\n. . . . . . . .\n. . . . . . . .\n. . P . . . . .\n. . . . . . . .\nP P . P P P P P\nR N B Q K B N R",
   moves |-> {}],
  [fen |-> "rnbqkbnr/pppppppp/8/8/8/3P4/PPP1PPPP/RNBQKBNR b KQkq - 0 1", turn |-> "b", expanded |-> FALSE, over |-> FALSE, result |-> "unknown", termination |-> "unknown",
   null_fen |-> "rnbqkbnr/pppppppp/8/8/8/3P4/PPP1PPPP/RNBQKBNR w KQkq - 1 2",
   ascii |-> "r n b q k b n r\np p p p p p p p\n. . . . . . . .\n. . . . . . . .\n. . . . . . . .\n. . . P . . . .\nP P P . P P P P\nR N B Q K B N R",
   moves |-> {}],
  [fen |-> "rnbqkbnr/pppppppp/8/8/3P4/8/PPP1PPPP/RNBQKBNR b KQkq - 0 1", turn |-> "b", expanded |-> FALSE, over |-> FALSE, result |-> "unknown", termination |-> "unknown",
   null_fen |-> "rnbqkbnr/pppppppp/8/8/3P4/8/PPP1PPPP/RNBQKBNR w KQkq - 1 2",
   ascii |-> "r n b q k b n r\np p p p p p p p\n. . . . . . . .\n. . . . . . . .\n. . . P . . . .\n. . . . . . . .\nP P P . P P P P\nR N B Q K B N R",
   moves |-> {}],
  [fen |-> "rnbqkbnr/pppppppp/8/8/8/4P3/PPPP1PPP/RNBQKBNR b KQkq - 0 1", turn |-> "b", expanded |-> FALSE, over |-> FALSE, result |-> "unknown", termination |-> "unknown",
   null_fen |-> "rnbqkbnr/pppppppp/8/8/8/4P3/PPPP1PPP/RNBQKBNR w KQkq - 1 2",
   ascii |-> "r n b q k b n r\np p p p p p p p\n. . . . . . . .\n. . . . . . . .\n. . . . . . . .\n. . . . P . . .\nP P P P . P P P\nR N B Q K B N R",
   moves |-> {}],
  [fen |-> "rnbqkbnr/pppppppp/8/8/4P3/8/PPPP1PPP/RNBQKBNR b KQkq - 0 1", turn |-> "b", expanded |-> FALSE, over |-> FALSE, result |-> "unknown", termination |-> "unknown",
   null_fen |-> "rnbqkbnr/pppppppp/8/8/4P3/8/PPPP1PPP/RNBQKBNR w KQkq - 1 2",
   ascii |-> "r n b q k b n r\np p p p p p p p\n. . . . . . . .\n. . . . . . . .\n. . . . P . . .\n. . . . . . . .\nP P P P . P P P\nR N B Q K B N R",
   moves |-> {}],
  [fen |-> "rnbqkbnr/pppppppp/8/8/8/5P2/PPPPP1PP/RNBQKBNR b KQkq - 0 1", turn |-> "b", expanded |-> FALSE, over |-> FALSE, result |-> "unknown", termination |-> "unknown",
   null_fen |-> "rnbqkbnr/pppppppp/8/8/8/5P2/PPPPP1PP/RNBQKBNR w KQkq - 1 2",
   ascii |-> "r n b q k b n r\np p p p p p p p\n. . . . . . . .\n. . . . . . . .\n. . . . . . . .\n. . . . . P . .\nP P P P P . P P\nR N B Q K B N R",
   moves |-> {}],
  [fen |-> "rnbqkbnr/pppppppp/8/8/5P2/8/PPPPP1PP/RNBQKBNR b KQkq - 0 1", turn |-> "b", expanded |-> FALSE, over |-> FALSE, result |-> "unknown", termination |-> "unknown",
   null_fen |-> "rnbqkbnr/pppppppp/8/8/5P2/8/PPPPP1PP/RNBQKBNR w KQkq - 1 2",
   ascii |-> "r n b q k b n r\np p p p p p p p\n. . . . . . . .\n. . . . . . . .\n. . . . . P . .\n. . . . . . . .\nP P P P P . P P\nR N B Q K B N R",
   moves |-> {}],
  [fen |-> "rnbqkbnr/pppppppp/8/8/8/7N/PPPPPPPP/RNBQKB1R b KQkq - 1 1", turn |-> "b", expanded |-> FALSE, over |-> FALSE, result |-> "unknown", termination |-> "unknown",
   null_fen |-> "rnbqkbnr/pppppppp/8/8/8/7N/PPPPPPPP/RNBQKB1R w KQkq - 2 2",
   ascii |-> "r n b q k b n r\np p p p p p p p\n. . . . . . . .\n. . . . . . . .\n. . . . . . . .\n. . . . . . . N\nP P P P P P P P\nR N B Q K B . R",
   moves |-> {}],
  [fen |-> "rnbqkbnr/pppppppp/8/8/8/5N2/PPPPPPPP/RNBQKB1R b KQkq - 1 1", turn |-> "b", expanded |-> FALSE, over |-> FALSE, result |-> "unknown", termination |-> "unknown",
   null_fen |-> "rnbqkbnr/pppppppp/8/8/8/5N2/PPPPPPPP/RNBQKB1R w KQkq - 2 2",
   ascii |-> "r n b q k b n r\np p p p p p p p\n. . . . . . . .\n. . . . . . . .\n. . . . . . . .\n. . . . . N . .\nP P P P P P P P\nR N B Q K B . R",
   moves |-> {}],
  [fen |-> "rnbqkbnr/pppppppp/8/8/8/6P1/PPPPPP1P/RNBQKBNR b KQkq - 0 1", turn |-> "b", expanded |-> FALSE, over |-> FALSE, result |-> "unknown", termination |-> "unknown",
   null_fen |-> "rnbqkbnr/pppppppp/8/8/8/6P1/PPPPPP1P/RNBQKBNR w KQkq - 1 2",
   ascii |-> "r n b q k b n r\np p p p p p p p\n. . . . . . . .\n. . . . . . . .\n. . . . . . . .\n. . . . . . P .\nP P P P P P . P\nR N B Q K B N R",
   moves |-> {}],
  [fen |-> "rnbqkbnr/pppppppp/8/8/6P1/8/PPPPPP1P/RNBQKBNR b KQkq - 0 1", turn |-> "b", expanded |-> FALSE, over |-> FALSE, result |-> "unknown", termination |-> "unknown",
   null_fen |-> "rnbqkbnr/pppppppp/8/8/6P1/8/PPPPPP1P/RNBQKBNR w KQkq - 1 2",
   ascii |-> "r n b q k b n r\np p p p p p p p\n. . . . . . . .\n. . . . . . . .\n. . . . . . P .\n. . . . . . . .\nP P P P P P . P\nR N B Q K B N R",
   moves |-> {}],
  [fen |-> "rnbqkbnr/pppppppp/8/8/8/7P/PPPPPPP1/RNBQKBNR b KQkq - 0 1", turn |-> "b", expanded |-> FALSE, over |-> FALSE, result |-> "unknown", termination |-> "unknown",
   null_fen |-> "rnbqkbnr/pppppppp/8/8/8/7P/PPPPPPP1/RNBQKBNR w KQkq - 1 2",
   ascii |-> "r n b q k b n r\np p p p p p p p\n. . . . . . . .\n. . . . . . . .\n. . . . . . . .\n. . . . . . . P\nP P P P P P P .\nR N B Q K B N R",
   moves |-> {}],
  [fen |-> "rnbqkbnr/pppppppp/8/8/7P/8/PPPPPPP1/RNBQKBNR b KQkq - 0 1", turn |-> "b", expanded |-> FALSE, over |-> FALSE, result |-> "unknown", termination |-> "unknown",
   null_fen |-> "rnbqkbnr/pppppppp/8/8/7P/8/PPPPPPP1/RNBQKBNR w KQkq - 1 2",
   ascii |-> "r n b q k b n r\np p p p p p p p\n. . . . . . . .\n. . . . . . . .\n. . . . . . . P\n. . . . . . . .\nP P P P P P P .\nR N B Q K B N R",
   moves |-> {}],
  [fen |-> "rnbqkbnr/pppppppp/8/8/8/8/PPPPPPPP/RNBQKBNR b KQkq - 1 1", turn |-> "b", expanded |-> FALSE, over |-> FALSE, result |-> "unknown", termination |-> "unknown",
   null_fen |-> "rnbqkbnr/pppppppp/8/8/8/8/PPPPPPPP/RNBQKBNR w KQkq - 2 2",
   ascii |-> "r n b q k b n r\np p p p p p p p\n. . . . . . . .\n. . . . . . . .\n. . . . . . . .\n. . . . . . . .\nP P P P P P P P\nR N B Q K B N R",
   moves |-> {}],
  [fen |-> "6nk/5p1p/5PPP/8/8/p1n5/P7/K7 w - - 0 33", turn |-> "w", expanded |-> TRUE, over |-> FALSE, result |-> "unknown", termination |-> "unknown",
   null_fen |-> "6nk/5p1p/5PPP/8/8/p1n5/P7/K7 b - - 1 33",
   ascii |-> ". . . . . . n k\n. . . . . p . p\n. . . . . P P P\n. . . . . . . .\n. . . . . . . .\np . n . . . . .\nP . . . . . . .\nK . . . . . . .",
   moves |-> {[uci |-> "g6g7", san |-> "g7#", piece |-> "P", ffile |-> "g", frank |-> "6", to |-> "g7", promo |-> "", fen |-> "6nk/5pPp/5P1P/8/8/p1n5/P7/K7 b - - 0 33"],
             [uci |-> "g6f7", san |-> "gxf7", piece |-> "P", ffile |-> "g", frank |-> "6", to |-> "f7", promo |-> "", fen |-> "6nk/5P1p/5P1P/8/8/p1n5/P7/K7 b - - 0 33"],
             [uci |-> "g6h7", san |-> "gxh7", piece |-> "P", ffile |-> "g", frank |-> "6", to |-> "h7", promo |-> "", fen |-> "6nk/5p1P/5P1P/8/8/p1n5/P7/K7 b - - 0 33"]}],
  [fen |-> "6nk/5pPp/5P1P/8/8/p1n5/P7/K7 b - - 0 33", turn |-> "b", expanded |-> TRUE, over |-> TRUE, result |-> "white_wins", termination |-> "checkmate",
   null_fen |-> "6nk/5pPp/5P1P/8/8/p1n5/P7/K7 w - - 1 34",
   ascii |-> ". . . . . . n k\n. . . . . p P p\n. . . . . P . P\n. . . . . . . .\n. . . . . . . .\np . n . . . . .\nP . . . . . . .\nK . . . . . . .",
   moves |-> {}],
  [fen |-> "6nk/5P1p/5P1P/8/8/p1n5/P7/K7 b - - 0 33", turn |-> "b", expanded |-> TRUE, over |-> FALSE, result |-> "unknown", termination |-> "unknown",
   null_fen |-> "6nk/5P1p/5P1P/8/8/p1n5/P7/K7 w - - 1 34",
   ascii |-> ". . . . . . n k\n. . . . . P . p\n. . . . . P . P\n. . . . . . . .\n. . . . . . . .\np . n . . . . .\nP . . . . . . .\nK . . . . . . .",
   moves |-> {[uci |-> "c3d5", san |-> "Nd5", piece |-> "N", ffile |-> "c", frank |-> "3", to |-> "d5", promo |-> "", fen |-> "6nk/5P1p/5P1P/3n4/8/p7/P7/K7 w - - 1 34"],
             [uci |-> "c3e4", san |-> "Ne4", piece |-> "N", ffile |-> "c", frank |-> "3", to |-> "e4", promo |-> "", fen |-> "6nk/5P1p/5P1P/8/4n3/p7/P7/K7 w - - 1 34"],
             [uci |-> "c3b5", san |-> "Nb5", piece |-> "N", ffile |-> "c", frank |-> "3", to |-> "b5", promo |-> "", fen |-> "6nk/5P1p/5P1P/1n6/8/p7/P7/K7 w - - 1 34"],
             [uci |-> "c3a4", san |-> "Na4", piece |-> "N", ffile |-> "c", frank |-> "3", to |-> "a4", promo |-> "", fen |-> "6nk/5P1p/5P1P/8/n7/p7/P7/K7 w - - 1 34"],
             [uci |-> "c3d1", san |-> "Nd1", piece |-> "N", ffile |-> "c", frank |-> "3", to |-> "d1", promo |-> "", fen |-> "6nk/5P1p/5P1P/8/8/p7/P7/K2n4 w - - 1 34"],
             [uci |-> "c3e2", san |-> "Ne2", piece |-> "N", ffile |-> "c", frank |-> "3", to |-> "e2", promo |-> "", fen |-> "6nk/5P1p/5P1P/8/8/p7/P3n3/K7 w - - 1 34"],
             [uci |-> "c3b1", san |-> "Nb1", piece |-> "N", ffile |-> "c", frank |-> "3", to |-> "b1", promo |-> "", fen |-> "6nk/5P1p/5P1P/8/8/p7/P7/Kn6 w - - 1 34"],
             [uci |-> "c3a2", san |-> "Nxa2", piece |-> "N", ffile |-> "c", frank |-> "3", to |-> "a2", promo |-> "", fen |-> "6nk/5P1p/5P1P/8/8/p7/n7/K7 w - - 0 34"],
             [uci |-> "g8h6", san |-> "Nxh6", piece |-> "N", ffile |-> "g", frank |-> "8", to |-> "h6", promo |-> "", fen |-> "7k/5P1p/5P1n/8/8/p1n5/P7/K7 w - - 0 34"],
             [uci |-> "g8f6", san |-> "Nxf6", piece |-> "N", ffile |-> "g", frank |-> "8", to |-> "f6", promo |-> "", fen |-> "7k/5P1p/5n1P/8/8/p1n5/P7/K7 w - - 0 34"],
             [uci |-> "g8e7", san |-> "Ne7", piece |-> "N", ffile |-> "g", frank |-> "8", to |-> "e7", promo |-> "", fen |-> "7k/4nP1p/5P1P/8/8/p1n5/P7/K7 w - - 1 34"]}],
  [fen |-> "6nk/5p1P/5P1P/8/8/p1n5/P7/K7 b - - 0 33", turn |-> "b", expanded |-> TRUE, over |-> FALSE, result |-> "unknown", termination |-> "unknown",
   null_fen |-> "6nk/5p1P/5P1P/8/8/p1n5/P7/K7 w - - 1 34",
   ascii |-> ". . . . . . n k\n. . . . . p . P\n. . . . . P . P\n. . . . . . . .\n. . . . . . . .\np . n . . . . .\nP . . . . . . .\nK . . . . . . .",
   moves |-> {[uci |-> "c3d5", san |-> "Nd5", piece |-> "N", ffile |-> "c", frank |-> "3", to |-> "d5", promo |-> "", fen |-> "6nk/5p1P/5P1P/3n4/8/p7/P7/K7 w - - 1 34"],
             [uci |-> "c3e4", san |-> "Ne4", piece |-> "N", ffile |-> "c", frank |-> "3", to |-> "e4", promo |-> "", fen |-> "6nk/5p1P/5P1P/8/4n3/p7/P7/K7 w - - 1 34"],
             [uci |-> "c3b5", san |-> "Nb5", piece |-> "N", ffile |-> "c", frank |-> "3", to |-> "b5", promo |-> "", fen |-> "6nk/5p1P/5P1P/1n6/8/p7/P7/K7 w - - 1 34"],
             [uci |-> "c3a4", san |-> "Na4", piece |-> "N", ffile |-> "c", frank |-> "3", to |-> "a4", promo |-> "", fen |-> "6nk/5p1P/5P1P/8/n7/p7/P7/K7 w - - 1 34"],
             [uci |-> "c3d1", san |-> "Nd1", piece |-> "N", ffile |-> "c", frank |-> "3", to |-> "d1", promo |-> "", fen |-> "6nk/5p1P/5P1P/8/8/p7/P7/K2n4 w - - 1 34"],
             [uci |-> "c3e2", san |-> "Ne2", piece |-> "N", ffile |-> "c", frank |-> "3", to |-> "e2", promo |-> "", fen |-> "6nk/5p1P/5P1P/8/8/p7/P3n3/K7 w - - 1 34"],
             [uci |-> "c3b1", san |-> "Nb1", piece |-> "N", ffile |-> "c", frank |-> "3", to |-> "b1", promo |-> "", fen |-> "6nk/5p1P/5P1P/8/8/p7/P7/Kn6 w - - 1 34"],
             [uci |-> "c3a2", san |-> "Nxa2", piece |-> "N", ffile |-> "c", frank |-> "3", to |-> "a2", promo |-> "", fen |-> "6nk/5p1P/5P1P/8/8/p7/n7/K7 w - - 0 34"],
             [uci |-> "g8h6", san |-> "Nxh6", piece |-> "N", ffile |-> "g", frank |-> "8", to |-> "h6", promo |-> "", fen |-> "7k/5p1P/5P1n/8/8/p1n5/P7/K7 w - - 0 34"],
             [uci |-> "g8f6", san |-> "Nxf6", piece |-> "N", ffile |-> "g", frank |-> "8", to |-> "f6", promo |-> "", fen |-> "7k/5p1P/5n1P/8/8/p1n5/P7/K7 w - - 0 34"],
             [uci |-> "g8e7", san |-> "Ne7", piece |-> "N", ffile |-> "g", frank |-> "8", to |-> "e7", promo |-> "", fen |-> "7k/4np1P/5P1P/8/8/p1n5/P7/K7 w - - 1 34"],
             [uci |-> "h8h7", san |-> "Kxh7", piece |-> "K", ffile |-> "h", frank |-> "8", to |-> "h7", promo |-> "", fen |-> "6n1/5p1k/5P1P/8/8/p1n5/P7/K7 w - - 0 34"]}],
  [fen |-> "6nk/5p1p/5PPP/8/8/p1n5/P7/K7 b - - 1 33", turn |-> "b", expanded |-> TRUE, over |-> FALSE, result |-> "unknown", termination |-> "unknown",
   null_fen |-> "6nk/5p1p/5PPP/8/8/p1n5/P7/K7 w - - 2 34",
   ascii |-> ". . . . . . n k\n. . . . . p . p\n. . . . . P P P\n. . . . . . . .\n. . . . . . . .\np . n . . . . .\nP . . . . . . .\nK . . . . . . .",
   moves |-> {[uci |-> "c3d5", san |-> "Nd5", piece |-> "N", ffile |-> "c", frank |-> "3", to |-> "d5", promo |-> "", fen |-> "6nk/5p1p/5PPP/3n4/8/p7/P7/K7 w - - 2 34"],
             [uci |-> "c3e4", san |-> "Ne4", piece |-> "N", ffile |-> "c", frank |-> "3", to |-> "e4", promo |-> "", fen |-> "6nk/5p1p/5PPP/8/4n3/p7/P7/K7 w - - 2 34"],
             [uci |-> "c3b5", san |-> "Nb5", piece |-> "N", ffile |-> "c", frank |-> "3", to |-> "b5", promo |-> "", fen |-> "6nk/5p1p/5PPP/1n6/8/p7/P7/K7 w - - 2 34"],
             [uci |-> "c3a4", san |-> "Na4", piece |-> "N", ffile |-> "c", frank |-> "3", to |-> "a4", promo |-> "", fen |-> "6nk/5p1p/5PPP/8/n7/p7/P7/K7 w - - 2 34"],
             [uci |-> "c3d1", san |-> "Nd1", piece |-> "N", ffile |-> "c", frank |-> "3", to |-> "d1", promo |-> "", fen |-> "6nk/5p1p/5PPP/8/8/p7/P7/K2n4 w - - 2 34"],
             [uci |-> "c3e2", san |-> "Ne2", piece |-> "N", ffile |-> "c", frank |-> "3", to |-> "e2", promo |-> "", fen |-> "6nk/5p1p/5PPP/8/8/p7/P3n3/K7 w - - 2 34"],
             [uci |-> "c3b1", san |-> "Nb1", piece |-> "N", ffile |-> "c", frank |-> "3", to |-> "b1", promo |-> "", fen |-> "6nk/5p1p/5PPP/8/8/p7/P7/Kn6 w - - 2 34"],
             [uci |-> "c3a2", san |-> "Nxa2", piece |-> "N", ffile |-> "c", frank |-> "3", to |-> "a2", promo |-> "", fen |-> "6nk/5p1p/5PPP/8/8/p7/n7/K7 w - - 0 34"],
             [uci |-> "f7g6", san |-> "fxg6", piece |-> "P", ffile |-> "f", frank |-> "7", to |-> "g6", promo |-> "", fen |-> "6nk/7p/5PpP/8/8/p1n5/P7/K7 w - - 0 34"],
             [uci |-> "g8h6", san |-> "Nxh6", piece |-> "N", ffile |-> "g", frank |-> "8", to |-> "h6", promo |-> "", fen |-> "7k/5p1p/5PPn/8/8/p1n5/P7/K7 w - - 0 34"],
             [uci |-> "g8f6", san |-> "Nxf6", piece |-> "N", ffile |-> "g", frank |-> "8", to |-> "f6", promo |-> "", fen |-> "7k/5p1p/5nPP/8/8/p1n5/P7/K7 w - - 0 34"],
             [uci |-> "g8e7", san |-> "Ne7", piece |-> "N", ffile |-> "g", frank |-> "8", to |-> "e7", promo |-> "", fen |-> "7k/4np1p/5PPP/8/8/p1n5/P7/K7 w - - 2 34"],
             [uci |-> "h7g6", san |-> "hxg6", piece |-> "P", ffile |-> "h", frank |-> "7", to |-> "g6", promo |-> "", fen |-> "6nk/5p2/5PpP/8/8/p1n5/P7/K7 w - - 0 34"]}],
  [fen |-> "6nk/5P1p/5P1P/3n4/8/p7/P7/K7 w - - 1 34", turn |-> "w", expanded |-> FALSE, over |-> FALSE, result |-> "unknown", termination |-> "unknown",
   null_fen |-> "6nk/5P1p/5P1P/3n4/8/p7/P7/K7 b - - 2 34",
   ascii |-> ". . . . . . n k\n. . . . . P . p\n. . . . . P . P\n. . . n . . . .\n. . . . . . . .\np . . . . . . .\nP . . . . . . .\nK . . . . . . .",
   moves |-> {}],
  [fen |-> "6nk/5P1p/5P1P/8/4n3/p7/P7/K7 w - - 1 34", turn |-> "w", expanded |-> FALSE, over |-> FALSE, result |-> "unknown", termination |-> "unknown",
   null_fen |-> "6nk/5P1p/5P1P/8/4n3/p7/P7/K7 b - - 2 34",
   ascii |-> ". . . . . . n k\n. . . . . P . p\n. . . . . P . P\n. . . . . . . .\n. . . . n . . .\np . . . . . . .\nP . . . . . . .\nK . . . . . . .",
   moves |-> {}],
  [fen |-> "6nk/5P1p/5P1P/1n6/8/p7/P7/K7 w - - 1 34", turn |-> "w", expanded |-> FALSE, over |-> FALSE, result |-> "unknown", termination |-> "unknown",
   null_fen |-> "6nk/5P1p/5P1P/1n6/8/p7/P7/K7 b - - 2 34",
   ascii |-> ". . . . . . n k\n. . . . . P . p\n. . . . . P . P\n. n . . . . . .\n. . . . . . . .\np . . . . . . .\nP . . . . . . .\nK . . . . . . .",
   moves |-> {}],
  [fen |-> "6nk/5P1p/5P1P/8/n7/p7/P7/K7 w - - 1 34", turn |-> "w", expanded |-> FALSE, over |-> FALSE, result |-> "unknown", termination |-> "unknown",
   null_fen |-> "6nk/5P1p/5P1P/8/n7/p7/P7/K7 b - - 2 34",
   ascii |-> ". . . . . . n k\n. . . . . P . p\n. . . . . P . P\n. . . . . . . .\nn . . . . . . .\np . . . . . . .\nP . . . . . . .\nK . . . . . . .",
   moves |-> {}],
  [fen |-> "6nk/5P1p/5P1P/8/8/p7/P7/K2n4 w - - 1 34", turn |-> "w", expanded |-> FALSE, over |-> FALSE, result |-> "unknown", termination |-> "unknown",
   null_fen |-> "6nk/5P1p/5P1P/8/8/p7/P7/K2n4 b - - 2 34",
   ascii |-> ". . . . . . n k\n. . . . . P . p\n. . . . . P . P\n. . . . . . . .\n. . . . . . . .\np . . . . . . .\nP . . . . . . .\nK . . n . . . .",
   moves |-> {}],
  [fen |-> "6nk/5P1p/5P1P/8/8/p7/P3n3/K7 w - - 1 34", turn |-> "w", expanded |-> FALSE, over |-> FALSE, result |-> "unknown", termination |-> "unknown",
   null_fen |-> "6nk/5P1p/5P1P/8/8/p7/P3n3/K7 b - - 2 34",
   ascii |-> ". . . . . . n k\n. . . . . P . p\n. . . . . P . P\n. . . . . . . .\n. . . . . . . .\np . . . . . . .\nP . . . n . . .\nK . . . . . . .",
   moves |-> {}],
  [fen |-> "6nk/5P1p/5P1P/8/8/p7/P7/Kn6 w - - 1 34", turn |-> "w", expanded |-> FALSE, over |-> FALSE, result |-> "unknown", termination |-> "unknown",
   null_fen |-> "6nk/5P1p/5P1P/8/8/p7/P7/Kn6 b - - 2 34",
   ascii |-> ". . . . . . n k\n. . . . . P . p\n. . . . . P . P\n. . . . . . . .\n. . . . . . . .\np . . . . . . .\nP . . . . . . .\nK n . . . . . .",
   moves |-> {}],
  [fen |-> "6nk/5P1p/5P1P/8/8/p7/n7/K7 w - - 0 34", turn |-> "w", expanded |-> FALSE, over |-> FALSE, result |-> "unknown", termination |-> "unknown",
   null_fen |-> "6nk/5P1p/5P1P/8/8/p7/n7/K7 b - - 1 34",
   ascii |-> ". . . . . . n k\n. . . . . P . p\n. . . . . P . P\n. . . . . . . .\n. . . . . . . .\np . . . . . . .\nn . . . . . . .\nK . . . . . . .",
   moves |-> {}],
  [fen |-> "7k/5P1p/5P1n/8/8/p1n5/P7/K7 w - - 0 34", turn |-> "w", expanded |-> FALSE, over |-> FALSE, result |-> "unknown", termination |-> "unknown",
   null_fen |-> "7k/5P1p/5P1n/8/8/p1n5/P7/K7 b - - 1 34",
   ascii |-> ". . . . . . . k\n. . . . . P . p\n. . . . . P . n\n. . . . . . . .\n. . . . . . . .\np . n . . . . .\nP . . . . . . .\nK . . . . . . .",
   moves |-> {}],
  [fen |-> "7k/5P1p/5n1P/8/8/p1n5/P7/K7 w - - 0 34", turn |-> "w", expanded |-> FALSE, over |-> FALSE, result |-> "unknown", termination |-> "unknown",
   null_fen |-> "7k/5P1p/5n1P/8/8/p1n5/P7/K7 b - - 1 34",
   ascii |-> ". . . . . . . k\n. . . . . P . p\n. . . . . n . P\n. . . . . . . .\n. . . . . . . .\np . n . . . . .\nP . . . . . . .\nK . . . . . . .",
   moves |-> {}],
  [fen |-> "7k/4nP1p/5P1P/8/8/p1n5/P7/K7 w - - 1 34", turn |-> "w", expanded |-> FALSE, over |-> FALSE, result |-> "unknown", termination |-> "unknown",
   null_fen |-> "7k/4nP1p/5P1P/8/8/p1n5/P7/K7 b - - 2 34",
   ascii |-> ". . . . . . . k\n. . . . n P . p\n. . . . . P . P\n. . . . . . . .\n. . . . . . . .\np . n . . . . .\nP . . . . . . .\nK . . . . . . .",
   moves |-> {}],
  [fen |-> "6nk/5P1p/5P1P/8/8/p1n5/P7/K7 w - - 1 34", turn |-> "w", expanded |-> FALSE, over |-> FALSE, result |-> "unknown", termination |-> "unknown",
   null_fen |-> "6nk/5P1p/5P1P/8/8/p1n5/P7/K7 b - - 2 34",
   ascii |-> ". . . . . . n k\n. . . . . P . p\n. . . . . P . P\n. . . . . . . .\n. . . . . . . .\np . n . . . . .\nP . . . . . . .\nK . . . . . . .",
   moves |-> {}],
  [fen |-> "6nk/5p1P/5P1P/3n4/8/p7/P7/K7 w - - 1 34", turn |-> "w", expanded |-> FALSE, over |-> FALSE, result |-> "unknown", termination |-> "unknown",
   null_fen |-> "6nk/5p1P/5P1P/3n4/8/p7/P7/K7 b - - 2 34",
   ascii |-> ". . . . . . n k\n. . . . . p . P\n. . . . . P . P\n. . . n . . . .\n. . . . . . . .\np . . . . . . .\nP . . . . . . .\nK . . . . . . .",
   moves |-> {}],
  [fen |-> "6nk/5p1P/5P1P/8/4n3/p7/P7/K7 w - - 1 34", turn |-> "w", expanded |-> FALSE, over |-> FALSE, result |-> "unknown", termination |-> "unknown",
   null_fen |-> "6nk/5p1P/5P1P/8/4n3/p7/P7/K7 b - - 2 34",
   ascii |-> ". . . . . . n k\n. . . . . p . P\n. . . . . P . P\n. . . . . . . .\n. . . . n . . .\np . . . . . . .\nP . . . . . . .\nK . . . . . . .",
   moves |-> {}],
  [fen |-> "6nk/5p1P/5P1P/1n6/8/p7/P7/K7 w - - 1 34", turn |-> "w", expanded |-> FALSE, over |-> FALSE, result |-> "unknown", termination |-> "unknown",
   null_fen |-> "6nk/5p1P/5P1P/1n6/8/p7/P7/K7 b - - 2 34",
   ascii |-> ". . . . . . n k\n. . . . . p . P\n. . . . . P . P\n. n . . . . . .\n. . . . . . . .\np . . . . . . .\nP . . . . . . .\nK . . . . . . .",
   moves |-> {}],
  [fen |-> "6nk/5p1P/5P1P/8/n7/p7/P7/K7 w - - 1 34", turn |-> "w", expanded |-> FALSE, over |-> FALSE, result |-> "unknown", termination |-> "unknown",
   null_fen |-> "6nk/5p1P/5P1P/8/n7/p7/P7/K7 b - - 2 34",
   ascii |-> ". . . . . . n k\n. . . . . p . P\n. . . . . P . P\n. . . . . . . .\nn . . . . . . .\np . . . . . . .\nP . . . . . . .\nK . . . . . . .",
   moves |-> {}],
  [fen |-> "6nk/5p1P/5P1P/8/8/p7/P7/K2n4 w - - 1 34", turn |-> "w", expanded |-> FALSE, over |-> FALSE, result |-> "unknown", termination |-> "unknown",
   null_fen |-> "6nk/5p1P/5P1P/8/8/p7/P7/K2n4 b - - 2 34",
   ascii |-> ". . . . . . n k\n. . . . . p . P\n. . . . . P . P\n. . . . . . . .\n. . . . . . . .\np . . . . . . .\nP . . . . . . .\nK . . n . . . .",
   moves |-> {}],
  [fen |-> "6nk/5p1P/5P1P/8/8/p7/P3n3/K7 w - - 1 34", turn |-> "w", expanded |-> FALSE, over |-> FALSE, result |-> "unknown", termination |-> "unknown",
   null_fen |-> "6nk/5p1P/5P1P/8/8/p7/P3n3/K7 b - - 2 34",
   ascii |-> ". . . . . . n k\n. . . . . p . P\n. . . . . P . P\n. . . . . . . .\n. . . . . . . .\np . . . . . . .\nP . . . n . . .\nK . . . . . . .",
   moves |-> {}],
  [fen |-> "6nk/5p1P/5P1P/8/8/p7/P7/Kn6 w - - 1 34", turn |-> "w", expanded |-> FALSE, over |-> FALSE, result |-> "unknown", termination |-> "unknown",
   null_fen |-> "6nk/5p1P/5P1P/8/8/p7/P7/Kn6 b - - 2 34",
   ascii |-> ". . . . . . n k\n. . . . . p . P\n. . . . . P . P\n. . . . . . . .\n. . . . . . . .\np . . . . . . .\nP . . . . . . .\nK n . . . . . .",
   moves |-> {}],
  [fen |-> "6nk/5p1P/5P1P/8/8/p7/n7/K7 w - - 0 34", turn |-> "w", expanded |-> FALSE, over |-> FALSE, result |-> "unknown", termination |-> "unknown",
   null_fen |-> "6nk/5p1P/5P1P/8/8/p7/n7/K7 b - - 1 34",
   ascii |-> ". . . . . . n k\n. . . . . p . P\n. . . . . P . P\n. . . . . . . .\n. . . . . . . .\np . . . . . . .\nn . . . . . . .\nK . . . . . . .",
   moves |-> {}],
  [fen |-> "7k/5p1P/5P1n/8/8/p1n5/P7/K7 w - - 0 34", turn |-> "w", expanded |-> FALSE, over |-> TRUE, result |-> "draw", termination |-> "stalemate",
   null_fen |-> "7k/5p1P/5P1n/8/8/p1n5/P7/K7 b - - 1 34",
   ascii |-> ". . . . . . . k\n. . . . . p . P\n. . . . . P . n\n. . . . . . . .\n. . . . . . . .\np . n . . . . .\nP . . . . . . .\nK . . . . . . .",
   moves |-> {}],
  [fen |-> "7k/5p1P/5n1P/8/8/p1n5/P7/K7 w - - 0 34", turn |-> "w", expanded |-> FALSE, over |-> TRUE, result |-> "draw", termination |-> "stalemate",
   null_fen |-> "7k/5p1P/5n1P/8/8/p1n5/P7/K7 b - - 1 34",
   ascii |-> ". . . . . . . k\n. . . . . p . P\n. . . . . n . P\n. . . . . . . .\n. . . . . . . .\np . n . . . . .\nP . . . . . . .\nK . . . . . . .",
   moves |-> {}],
  [fen |-> "7k/4np1P/5P1P/8/8/p1n5/P7/K7 w - - 1 34", turn |-> "w", expanded |-> FALSE, over |-> FALSE, result |-> "unknown", termination |-> "unknown",
   null_fen |-> "7k/4np1P/5P1P/8/8/p1n5/P7/K7 b - - 2 34",
   ascii |-> ". . . . . . . k\n. . . . n p . P\n. . . . . P . P\n. . . . . . . .\n. . . . . . . .\np . n . . . . .\nP . . . . . . .\nK . . . . . . .",
   moves |-> {}],
  [fen |-> "6n1/5p1k/5P1P/8/8/p1n5/P7/K7 w - - 0 34", turn |-> "w", expanded |-> FALSE, over |-> TRUE, result |-> "draw", termination |-> "stalemate",
   null_fen |-> "6n1/5p1k/5P1P/8/8/p1n5/P7/K7 b - - 1 34",
   ascii |-> ". . . . . . n .\n. . . . . p . k\n. . . . . P . P\n. . . . . . . .\n. . . . . . . .\np . n . . . . .\nP . . . . . . .\nK . . . . . . .",
   moves |-> {}],
  [fen |-> "6nk/5p1P/5P1P/8/8/p1n5/P7/K7 w - - 1 34", turn |-> "w", expanded |-> FALSE, over |-> FALSE, result |-> "unknown", termination |-> "unknown",
   null_fen |-> "6nk/5p1P/5P1P/8/8/p1n5/P7/K7 b - - 2 34",
   ascii |-> ". . . . . . n k\n. . . . . p . P\n. . . . . P . P\n. . . . . . . .\n. . . . . . . .\np . n . . . . .\nP . . . . . . .\nK . . . . . . .",
   moves |-> {}],
  [fen |-> "6nk/5p1p/5PPP/3n4/8/p7/P7/K7 w - - 2 34", turn |-> "w", expanded |-> FALSE, over |-> FALSE, result |-> "unknown", termination |-> "unknown",
   null_fen |-> "6nk/5p1p/5PPP/3n4/8/p7/P7/K7 b - - 3 34",
   ascii |-> ". . . . . . n k\n. . . . . p . p\n. . . . . P P P\n. . . n . . . .\n. . . . . . . .\np . . . . . . .\nP . . . . . . .\nK . . . . . . .",
   moves |-> {}],
  [fen |-> "6nk/5p1p/5PPP/8/4n3/p7/P7/K7 w - - 2 34", turn |-> "w", expanded |-> FALSE, over |-> FALSE, result |-> "unknown", termination |-> "unknown",
   null_fen |-> "6nk/5p1p/5PPP/8/4n3/p7/P7/K7 b - - 3 34",
   ascii |-> ". . . . . . n k\n. . . . . p . p\n. . . . . P P P\n. . . . . . . .\n. . . . n . . .\np . . . . . . .\nP . . . . . . .\nK . . . . . . .",
   moves |-> {}],
  [fen |-> "6nk/5p1p/5PPP/1n6/8/p7/P7/K7 w - - 2 34", turn |-> "w", expanded |-> FALSE, over |-> FALSE, result |-> "unknown", termination |-> "unknown",
   null_fen |-> "6nk/5p1p/5PPP/1n6/8/p7/P7/K7 b - - 3 34",
   ascii |-> ". . . . . . n k\n. . . . . p . p\n. . . . . P P P\n. n . . . . . .\n. . . . . . . .\np . . . . . . .\nP . . . . . . .\nK . . . . . . .",
   moves |-> {}],
  [fen |-> "6nk/5p1p/5PPP/8/n7/p7/P7/K7 w - - 2 34", turn |-> "w", expanded |-> FALSE, over |-> FALSE, result |-> "unknown", termination |-> "unknown",
   null_fen |-> "6nk/5p1p/5PPP/8/n7/p7/P7/K7 b - - 3 34",
   ascii |-> ". . . . . . n k\n. . . . . p . p\n. . . . . P P P\n. . . . . . . .\nn . . . . . . .\np . . . . . . .\nP . . . . . . .\nK . . . . . . .",
   moves |-> {}],
  [fen |-> "6nk/5p1p/5PPP/8/8/p7/P7/K2n4 w - - 2 34", turn |-> "w", expanded |-> FALSE, over |-> FALSE, result |-> "unknown", termination |-> "unknown",
   null_fen |-> "6nk/5p1p/5PPP/8/8/p7/P7/K2n4 b - - 3 34",
   ascii |-> ". . . . . . n k\n. . . . . p . p\n. . . . . P P P\n. . . . . . . .\n. . . . . . . .\np . . . . . . .\nP . . . . . . .\nK . . n . . . .",
   moves |-> {}],
  [fen |-> "6nk/5p1p/5PPP/8/8/p7/P3n3/K7 w - - 2 34", turn |-> "w", expanded |-> FALSE, over |-> FALSE, result |-> "unknown", termination |-> "unknown",
   null_fen |-> "6nk/5p1p/5PPP/8/8/p7/P3n3/K7 b - - 3 34",
   ascii |-> ". . . . . . n k\n. . . . . p . p\n. . . . . P P P\n. . . . . . . .\n. . . . . . . .\np . . . . . . .\nP . . . n . . .\nK . . . . . . .",
   moves |-> {}],
  [fen |-> "6nk/5p1p/5PPP/8/8/p7/P7/Kn6 w - - 2 34", turn |-> "w", expanded |-> FALSE, over |-> FALSE, result |-> "unknown", termination |-> "unknown",
   null_fen |-> "6nk/5p1p/5PPP/8/8/p7/P7/Kn6 b - - 3 34",
   ascii |-> ". . . . . . n k\n. . . . . p . p\n. . . . . P P P\n. . . . . . . .\n. . . . . . . .\np . . . . . . .\nP . . . . . . .\nK n . . . . . .",
   moves |-> {}],
  [fen |-> "6nk/5p1p/5PPP/8/8/p7/n7/K7 w - - 0 34", turn |-> "w", expanded |-> FALSE, over |-> FALSE, result |-> "unknown", termination |-> "unknown",
   null_fen |-> "6nk/5p1p/5PPP/8/8/p7/n7/K7 b - - 1 34",
   ascii |-> ". . . . . . n k\n. . . . . p . p\n. . . . . P P P\n. . . . . . . .\n. . . . . . . .\np . . . . . . .\nn . . . . . . .\nK . . . . . . .",
   moves |-> {}],
  [fen |-> "6nk/7p/5PpP/8/8/p1n5/P7/K7 w - - 0 34", turn |-> "w", expanded |-> FALSE, over |-> FALSE, result |-> "unknown", termination |-> "unknown",
   null_fen |-> "6nk/7p/5PpP/8/8/p1n5/P7/K7 b - - 1 34",
   ascii |-> ". . . . . . n k\n. . . . . . . p\n. . . . . P p P\n. . . . . . . .\n. . . . . . . .\np . n . . . . .\nP . . . . . . .\nK . . . . . . .",
   moves |-> {}],
  [fen |-> "7k/5p1p/5PPn/8/8/p1n5/P7/K7 w - - 0 34", turn |-> "w", expanded |-> FALSE, over |-> FALSE, result |-> "unknown", termination |-> "unknown",
   null_fen |-> "7k/5p1p/5PPn/8/8/p1n5/P7/K7 b - - 1 34",
   ascii |-> ". . . . . . . k\n. . . . . p . p\n. . . . . P P n\n. . . . . . . .\n. . . . . . . .\np . n . . . . .\nP . . . . . . .\nK . . . . . . .",
   moves |-> {}],
  [fen |-> "7k/5p1p/5nPP/8/8/p1n5/P7/K7 w - - 0 34", turn |-> "w", expanded |-> FALSE, over |-> FALSE, result |-> "unknown", termination |-> "unknown",
   null_fen |-> "7k/5p1p/5nPP/8/8/p1n5/P7/K7 b - - 1 34",
   ascii |-> ". . . . . . . k\n. . . . . p . p\n. . . . . n P P\n. . . . . . . .\n. . . . . . . .\np . n . . . . .\nP . . . . . . .\nK . . . . . . .",
   moves |-> {}],
  [fen |-> "7k/4np1p/5PPP/8/8/p1n5/P7/K7 w - - 2 34", turn |-> "w", expanded |-> FALSE, over |-> FALSE, result |-> "unknown", termination |-> "unknown",
   null_fen |-> "7k/4np1p/5PPP/8/8/p1n5/P7/K7 b - - 3 34",
   ascii |-> ". . . . . . . k\n. . . . n p . p\n. . . . . P P P\n. . . . . . . .\n. . . . . . . .\np . n . . . . .\nP . . . . . . .\nK . . . . . . .",
   moves |-> {}],
  [fen |-> "6nk/5p2/5PpP/8/8/p1n5/P7/K7 w - - 0 34", turn |-> "w", expanded |-> FALSE, over |-> FALSE, result |-> "unknown", termination |-> "unknown",
   null_fen |-> "6nk/5p2/5PpP/8/8/p1n5/P7/K7 b - - 1 34",
   ascii |-> ". . . . . . n k\n. . . . . p . .\n. . . . . P p P\n. . . . . . . .\n. . . . . . . .\np . n . . . . .\nP . . . . . . .\nK . . . . . . .",
   moves |-> {}],
  [fen |-> "6nk/5p1p/5PPP/8/8/p1n5/P7/K7 w - - 2 34", turn |-> "w", expanded |-> FALSE, over |-> FALSE, result |-> "unknown", termination |-> "unknown",
   null_fen |-> "6nk/5p1p/5PPP/8/8/p1n5/P7/K7 b - - 3 34",
   ascii |-> ". . . . . . n k\n. . . . . p . p\n. . . . . P P P\n. . . . . . . .\n. . . . . . . .\np . n . . . . .\nP . . . . . . .\nK . . . . . . .",
   moves |-> {}],
  [fen |-> "7k/8/8/8/8/5N2/8/KN6 w - - 0 1", turn |-> "w", expanded |-> TRUE, over |-> FALSE, result |-> "unknown", termination |-> "unknown",
   null_fen |-> "7k/8/8/8/8/5N2/8/KN6 b - - 1 1",
   ascii |-> ". . . . . . . k\n. . . . . . . .\n. . . . . . . .\n. . . . . . . .\n. . . . . . . .\n. . . . . N . .\n. . . . . . . .\nK N . . . . . .",
   moves |-> {[uci |-> "a1a2", san |-> "Ka2", piece |-> "K", ffile |-> "a", frank |-> "1", to |-> "a2", promo |-> "", fen |-> "7k/8/8/8/8/5N2/K7/1N6 b - - 1 1"],
             [uci |-> "a1b2", san |-> "Kb2", piece |-> "K", ffile |-> "a", frank |-> "1", to |-> "b2", promo |-> "", fen |-> "7k/8/8/8/8/5N2/1K6/1N6 b - - 1 1"],
             [uci |-> "b1c3", san |-> "Nc3", piece |-> "N", ffile |-> "b", frank |-> "1", to |-> "c3", promo |-> "", fen |-> "7k/8/8/8/8/2N2N2/8/K7 b - - 1 1"],
             [uci |-> "b1d2", san |-> "Nbd2", piece |-> "N", ffile |-> "b", frank |-> "1", to |-> "d2", promo |-> "", fen |-> "7k/8/8/8/8/5N2/3N4/K7 b - - 1 1"],
             [uci |-> "b1a3", san |-> "Na3", piece |-> "N", ffile |-> "b", frank |-> "1", to |-> "a3", promo |-> "", fen |-> "7k/8/8/8/8/N4N2/8/K7 b - - 1 1"],
             [uci |-> "f3g5", san |-> "Ng5", piece |-> "N", ffile |-> "f", frank |-> "3", to |-> "g5", promo |-> "", fen |-> "7k/8/8/6N1/8/8/8/KN6 b - - 1 1"],
             [uci |-> "f3h4", san |-> "Nh4", piece |-> "N", ffile |-> "f", frank |-> "3", to |-> "h4", promo |-> "", fen |-> "7k/8/8/8/7N/8/8/KN6 b - - 1 1"],
             [uci |-> "f3e5", san |-> "Ne5", piece |-> "N", ffile |-> "f", frank |-> "3", to |-> "e5", promo |-> "", fen |-> "7k/8/8/4N3/8/8/8/KN6 b - - 1 1"],
             [uci |-> "f3d4", san |-> "Nd4", piece |-> "N", ffile |-> "f", frank |-> "3", to |-> "d4", promo |-> "", fen |-> "7k/8/8/8/3N4/8/8/KN6 b - - 1 1"],
             [uci |-> "f3g1", san |-> "Ng1", piece |-> "N", ffile |-> "f", frank |-> "3", to |-> "g1", promo |-> "", fen |-> "7k/8/8/8/8/8/8/KN4N1 b - - 1 1"],
             [uci |-> "f3h2", san |-> "Nh2", piece |-> "N", ffile |-> "f", frank |-> "3", to |-> "h2", promo |-> "", fen |-> "7k/8/8/8/8/8/7N/KN6 b - - 1 1"],
             [uci |-> "f3e1", san |-> "Ne1", piece |-> "N", ffile |-> "f", frank |-> "3", to |-> "e1", promo |-> "", fen |-> "7k/8/8/8/8/8/8/KN2N3 b - - 1 1"],
             [uci |-> "f3d2", san |-> "Nfd2", piece |-> "N", ffile |-> "f", frank |-> "3", to |-> "d2", promo |-> "", fen |-> "7k/8/8/8/8/8/3N4/KN6 b - - 1 1"]}]
  }

TokenTable ==
  {
  [tok |-> "", san_kind |-> "invalid", piece |-> "", ffile |-> "", frank |-> "", to |-> "", promo |-> "", uci_kind |-> "invalid"],
  [tok |-> "--", san_kind |-> "null", piece |-> "", ffile |-> "", frank |-> "", to |-> "", promo |-> "", uci_kind |-> "invalid"],
  [tok |-> "0000", san_kind |-> "null", piece |-> "", ffile |-> "", frank |-> "", to |-> "", promo |-> "", uci_kind |-> "null"],
  [tok |-> "Ka2", san_kind |-> "match", piece |-> "K", ffile |-> "", frank |-> "", to |-> "a2", promo |-> "", uci_kind |-> "invalid"],
  [tok |-> "Kb2", san_kind |-> "match", piece |-> "K", ffile |-> "", frank |-> "", to |-> "b2", promo |-> "", uci_kind |-> "invalid"],
  [tok |-> "Kxh7", san_kind |-> "match", piece |-> "K", ffile |-> "", frank |-> "", to |-> "h7", promo |-> "", uci_kind |-> "invalid"],
  [tok |-> "N1d2", san_kind |-> "match", piece |-> "N", ffile |-> "", frank |-> "1", to |-> "d2", promo |-> "", uci_kind |-> "invalid"],
  [tok |-> "Na3", san_kind |-> "match", piece |-> "N", ffile |-> "", frank |-> "", to |-> "a3", promo |-> "", uci_kind |-> "invalid"],
  [tok |-> "Na4", san_kind |-> "match", piece |-> "N", ffile |-> "", frank |-> "", to |-> "a4", promo |-> "", uci_kind |-> "invalid"],
  [tok |-> "Nb1", san_kind |-> "match", piece |-> "N", ffile |-> "", frank |-> "", to |-> "b1", promo |-> "", uci_kind |-> "invalid"],
  [tok |-> "Nb5", san_kind |-> "match", piece |-> "N", ffile |-> "", frank |-> "", to |-> "b5", promo |-> "", uci_kind |-> "invalid"],
  [tok |-> "Nbd2", san_kind |-> "match", piece |-> "N", ffile |-> "b", frank |-> "", to |-> "d2", promo |-> "", uci_kind |-> "invalid"],
  [tok |-> "Nc3", san_kind |-> "match", piece |-> "N", ffile |-> "", frank |-> "", to |-> "c3", promo |-> "", uci_kind |-> "invalid"],
  [tok |-> "Nd1", san_kind |-> "match", piece |-> "N", ffile |-> "", frank |-> "", to |-> "d1", promo |-> "", uci_kind |-> "invalid"],
  [tok |-> "Nd2", san_kind |-> "match", piece |-> "N", ffile |-> "", frank |-> "", to |-> "d2", promo |-> "", uci_kind |-> "invalid"],
  [tok |-> "Nd4", san_kind |-> "match", piece |-> "N", ffile |-> "", frank |-> "", to |-> "d4", promo |-> "", uci_kind |-> "invalid"],
  [tok |-> "Nd5", san_kind |-> "match", piece |-> "N", ffile |-> "", frank |-> "", to |-> "d5", promo |-> "", uci_kind |-> "invalid"],
  [tok |-> "Ne1", san_kind |-> "match", piece |-> "N", ffile |-> "", frank |-> "", to |-> "e1", promo |-> "", uci_kind |-> "invalid"],
  [tok |-> "Ne2", san_kind |-> "match", piece |-> "N", ffile |-> "", frank |-> "", to |-> "e2", promo |-> "", uci_kind |-> "invalid"],
  [tok |-> "Ne4", san_kind |-> "match", piece |-> "N", ffile |-> "", frank |-> "", to |-> "e4", promo |-> "", uci_kind |-> "invalid"],
  [tok |-> "Ne5", san_kind |-> "match", piece |-> "N", ffile |-> "", frank |-> "", to |-> "e5", promo |-> "", uci_kind |-> "invalid"],
  [tok |-> "Ne7", san_kind |-> "match", piece |-> "N", ffile |-> "", frank |-> "", to |-> "e7", promo |-> "", uci_kind |-> "invalid"],
  [tok |-> "Nf3", san_kind |-> "match", piece |-> "N", ffile |-> "", frank |-> "", to |-> "f3", promo |-> "", uci_kind |-> "invalid"],
  [tok |-> "Nfd2", san_kind |-> "match", piece |-> "N", ffile |-> "f", frank |-> "", to |-> "d2", promo |-> "", uci_kind |-> "invalid"],
  [tok |-> "Ng1", san_kind |-> "match", piece |-> "N", ffile |-> "", frank |-> "", to |-> "g1", promo |-> "", uci_kind |-> "invalid"],
  [tok |-> "Ng5", san_kind |-> "match", piece |-> "N", ffile |-> "", frank |-> "", to |-> "g5", promo |-> "", uci_kind |-> "invalid"],
  [tok |-> "Nh2", san_kind |-> "match", piece |-> "N", ffile |-> "", frank |-> "", to |-> "h2", promo |-> "", uci_kind |-> "invalid"],
  [tok |-> "Nh3", san_kind |-> "match", piece |-> "N", ffile |-> "", frank |-> "", to |-> "h3", promo |-> "", uci_kind |-> "invalid"],
  [tok |-> "Nh4", san_kind |-> "match", piece |-> "N", ffile |-> "", frank |-> "", to |-> "h4", promo |-> "", uci_kind |-> "invalid"],
  [tok |-> "Nxa2", san_kind |-> "match", piece |-> "N", ffile |-> "", frank |-> "", to |-> "a2", promo |-> "", uci_kind |-> "invalid"],
  [tok |-> "Nxf6", san_kind |-> "match", piece |-> "N", ffile |-> "", frank |-> "", to |-> "f6", promo |-> "", uci_kind |-> "invalid"],
  [tok |-> "Nxh6", san_kind |-> "match", piece |-> "N", ffile |-> "", frank |-> "", to |-> "h6", promo |-> "", uci_kind |-> "invalid"],
  [tok |-> "O-O", san_kind |-> "castle_k", piece |-> "", ffile |-> "", frank |-> "", to |-> "", promo |-> "", uci_kind |-> "invalid"],
  [tok |-> "Pg7", san_kind |-> "invalid", piece |-> "", ffile |-> "", frank |-> "", to |-> "", promo |-> "", uci_kind |-> "invalid"],
  [tok |-> "Q@e4", san_kind |-> "invalid", piece |-> "", ffile |-> "", frank |-> "", to |-> "", promo |-> "", uci_kind |-> "drop"],
  [tok |-> "Qh5", san_kind |-> "match", piece |-> "Q", ffile |-> "", frank |-> "", to |-> "h5", promo |-> "", uci_kind |-> "invalid"],
  [tok |-> "Z0", san_kind |-> "null", piece |-> "", ffile |-> "", frank |-> "", to |-> "", promo |-> "", uci_kind |-> "invalid"],
  [tok |-> "a1a1", san_kind |-> "match", piece |-> "", ffile |-> "a", frank |-> "1", to |-> "a1", promo |-> "", uci_kind |-> "invalid"],
  [tok |-> "a1a2", san_kind |-> "match", piece |-> "", ffile |-> "a", frank |-> "1", to |-> "a2", promo |-> "", uci_kind |-> "move"],
  [tok |-> "a1b2", san_kind |-> "match", piece |-> "", ffile |-> "a", frank |-> "1", to |-> "b2", promo |-> "", uci_kind |-> "move"],
  [tok |-> "a2a3", san_kind |-> "match", piece |-> "", ffile |-> "a", frank |-> "2", to |-> "a3", promo |-> "", uci_kind |-> "move"],
  [tok |-> "a2a4", san_kind |-> "match", piece |-> "", ffile |-> "a", frank |-> "2", to |-> "a4", promo |-> "", uci_kind |-> "move"],
  [tok |-> "a3", san_kind |-> "match", piece |-> "", ffile |-> "", frank |-> "", to |-> "a3", promo |-> "", uci_kind |-> "invalid"],
  [tok |-> "a4", san_kind |-> "match", piece |-> "", ffile |-> "", frank |-> "", to |-> "a4", promo |-> "", uci_kind |-> "invalid"],
  [tok |-> "b1a3", san_kind |-> "match", piece |-> "", ffile |-> "b", frank |-> "1", to |-> "a3", promo |-> "", uci_kind |-> "move"],
  [tok |-> "b1c3", san_kind |-> "match", piece |-> "", ffile |-> "b", frank |-> "1", to |-> "c3", promo |-> "", uci_kind |-> "move"],
  [tok |-> "b1d2", san_kind |-> "match", piece |-> "", ffile |-> "b", frank |-> "1", to |-> "d2", promo |-> "", uci_kind |-> "move"],
  [tok |-> "b2b3", san_kind |-> "match", piece |-> "", ffile |-> "b", frank |-> "2", to |-> "b3", promo |-> "", uci_kind |-> "move"],
  [tok |-> "b2b4", san_kind |-> "match", piece |-> "", ffile |-> "b", frank |-> "2", to |-> "b4", promo |-> "", uci_kind |-> "move"],
  [tok |-> "b3", san_kind |-> "match", piece |-> "", ffile |-> "", frank |-> "", to |-> "b3", promo |-> "", uci_kind |-> "invalid"],
  [tok |-> "b4", san_kind |-> "match", piece |-> "", ffile |-> "", frank |-> "", to |-> "b4", promo |-> "", uci_kind |-> "invalid"],
  [tok |-> "c2c3", san_kind |-> "match", piece |-> "", ffile |-> "c", frank |-> "2", to |-> "c3", promo |-> "", uci_kind |-> "move"],
  [tok |-> "c2c4", san_kind |-> "match", piece |-> "", ffile |-> "c", frank |-> "2", to |-> "c4", promo |-> "", uci_kind |-> "move"],
  [tok |-> "c3", san_kind |-> "match", piece |-> "", ffile |-> "", frank |-> "", to |-> "c3", promo |-> "", uci_kind |-> "invalid"],
  [tok |-> "c3a2", san_kind |-> "match", piece |-> "", ffile |-> "c", frank |-> "3", to |-> "a2", promo |-> "", uci_kind |-> "move"],
  [tok |-> "c3a4", san_kind |-> "match", piece |-> "", ffile |-> "c", frank |-> "3", to |-> "a4", promo |-> "", uci_kind |-> "move"],
  [tok |-> "c3b1", san_kind |-> "match", piece |-> "", ffile |-> "c", frank |-> "3", to |-> "b1", promo |-> "", uci_kind |-> "move"],
  [tok |-> "c3b5", san_kind |-> "match", piece |-> "", ffile |-> "c", frank |-> "3", to |-> "b5", promo |-> "", uci_kind |-> "move"],
  [tok |-> "c3d1", san_kind |-> "match", piece |-> "", ffile |-> "c", frank |-> "3", to |-> "d1", promo |-> "", uci_kind |-> "move"],
  [tok |-> "c3d5", san_kind |-> "match", piece |-> "", ffile |-> "c", frank |-> "3", to |-> "d5", promo |-> "", uci_kind |-> "move"],
  [tok |-> "c3e2", san_kind |-> "match", piece |-> "", ffile |-> "c", frank |-> "3", to |-> "e2", promo |-> "", uci_kind |-> "move"],
  [tok |-> "c3e4", san_kind |-> "match", piece |-> "", ffile |-> "c", frank |-> "3", to |-> "e4", promo |-> "", uci_kind |-> "move"],
  [tok |-> "c4", san_kind |-> "match", piece |-> "", ffile |-> "", frank |-> "", to |-> "c4", promo |-> "", uci_kind |-> "invalid"],
  [tok |-> "d2d3", san_kind |-> "match", piece |-> "", ffile |-> "d", frank |-> "2", to |-> "d3", promo |-> "", uci_kind |-> "move"],
  [tok |-> "d2d4", san_kind |-> "match", piece |-> "", ffile |-> "d", frank |-> "2", to |-> "d4", promo |-> "", uci_kind |-> "move"],
  [tok |-> "d3", san_kind |-> "match", piece |-> "", ffile |-> "", frank |-> "", to |-> "d3", promo |-> "", uci_kind |-> "invalid"],
  [tok |-> "d4", san_kind |-> "match", piece |-> "", ffile |-> "", frank |-> "", to |-> "d4", promo |-> "", uci_kind |-> "invalid"],
  [tok |-> "e2e3", san_kind |-> "match", piece |-> "", ffile |-> "e", frank |-> "2", to |-> "e3", promo |-> "", uci_kind |-> "move"],
  [tok |-> "e2e4", san_kind |-> "match", piece |-> "", ffile |-> "e", frank |-> "2", to |-> "e4", promo |-> "", uci_kind |-> "move"],
  [tok |-> "e2e5", san_kind |-> "match", piece |-> "", ffile |-> "e", frank |-> "2", to |-> "e5", promo |-> "", uci_kind |-> "move"],
  [tok |-> "e3", san_kind |-> "match", piece |-> "", ffile |-> "", frank |-> "", to |-> "e3", promo |-> "", uci_kind |-> "invalid"],
  [tok |-> "e4", san_kind |-> "match", piece |-> "", ffile |-> "", frank |-> "", to |-> "e4", promo |-> "", uci_kind |-> "invalid"],
  [tok |-> "e4 is best", san_kind |-> "invalid", piece |-> "", ffile |-> "", frank |-> "", to |-> "", promo |-> "", uci_kind |-> "invalid"],
  [tok |-> "e7e8Q", san_kind |-> "match", piece |-> "", ffile |-> "e", frank |-> "7", to |-> "e8", promo |-> "q", uci_kind |-> "invalid"],
  [tok |-> "f2f3", san_kind |-> "match", piece |-> "", ffile |-> "f", frank |-> "2", to |-> "f3", promo |-> "", uci_kind |-> "move"],
  [tok |-> "f2f4", san_kind |-> "match", piece |-> "", ffile |-> "f", frank |-> "2", to |-> "f4", promo |-> "", uci_kind |-> "move"],
  [tok |-> "f3", san_kind |-> "match", piece |-> "", ffile |-> "", frank |-> "", to |-> "f3", promo |-> "", uci_kind |-> "invalid"],
  [tok |-> "f3d2", san_kind |-> "match", piece |-> "", ffile |-> "f", frank |-> "3", to |-> "d2", promo |-> "", uci_kind |-> "move"],
  [tok |-> "f3d4", san_kind |-> "match", piece |-> "", ffile |-> "f", frank |-> "3", to |-> "d4", promo |-> "", uci_kind |-> "move"],
  [tok |-> "f3e1", san_kind |-> "match", piece |-> "", ffile |-> "f", frank |-> "3", to |-> "e1", promo |-> "", uci_kind |-> "move"],
  [tok |-> "f3e5", san_kind |-> "match", piece |-> "", ffile |-> "f", frank |-> "3", to |-> "e5", promo |-> "", uci_kind |-> "move"],
  [tok |-> "f3g1", san_kind |-> "match", piece |-> "", ffile |-> "f", frank |-> "3", to |-> "g1", promo |-> "", uci_kind |-> "move"],
  [tok |-> "f3g5", san_kind |-> "match", piece |-> "", ffile |-> "f", frank |-> "3", to |-> "g5", promo |-> "", uci_kind |-> "move"],
  [tok |-> "f3h2", san_kind |-> "match", piece |-> "", ffile |-> "f", frank |-> "3", to |-> "h2", promo |-> "", uci_kind |-> "move"],
  [tok |-> "f3h4", san_kind |-> "match", piece |-> "", ffile |-> "f", frank |-> "3", to |-> "h4", promo |-> "", uci_kind |-> "move"],
  [tok |-> "f4", san_kind |-> "match", piece |-> "", ffile |-> "", frank |-> "", to |-> "f4", promo |-> "", uci_kind |-> "invalid"],
  [tok |-> "f7", san_kind |-> "match", piece |-> "", ffile |-> "", frank |-> "", to |-> "f7", promo |-> "", uci_kind |-> "invalid"],
  [tok |-> "f7f8", san_kind |-> "match", piece |-> "", ffile |-> "f", frank |-> "7", to |-> "f8", promo |-> "", uci_kind |-> "move"],
  [tok |-> "f7g6", san_kind |-> "match", piece |-> "", ffile |-> "f", frank |-> "7", to |-> "g6", promo |-> "", uci_kind |-> "move"],
  [tok |-> "f8=q", san_kind |-> "match", piece |-> "", ffile |-> "", frank |-> "", to |-> "f8", promo |-> "q", uci_kind |-> "invalid"],
  [tok |-> "f8Q", san_kind |-> "match", piece |-> "", ffile |-> "", frank |-> "", to |-> "f8", promo |-> "q", uci_kind |-> "invalid"],
  [tok |-> "fxg6", san_kind |-> "match", piece |-> "", ffile |-> "f", frank |-> "", to |-> "g6", promo |-> "", uci_kind |-> "invalid"],
  [tok |-> "g1f3", san_kind |-> "match", piece |-> "", ffile |-> "g", frank |-> "1", to |-> "f3", promo |-> "", uci_kind |-> "move"],
  [tok |-> "g1h3", san_kind |-> "match", piece |-> "", ffile |-> "g", frank |-> "1", to |-> "h3", promo |-> "", uci_kind |-> "move"],
  [tok |-> "g2g3", san_kind |-> "match", piece |-> "", ffile |-> "g", frank |-> "2", to |-> "g3", promo |-> "", uci_kind |-> "move"],
  [tok |-> "g2g4", san_kind |-> "match", piece |-> "", ffile |-> "g", frank |-> "2", to |-> "g4", promo |-> "", uci_kind |-> "move"],
  [tok |-> "g3", san_kind |-> "match", piece |-> "", ffile |-> "", frank |-> "", to |-> "g3", promo |-> "", uci_kind |-> "invalid"],
  [tok |-> "g4", san_kind |-> "match", piece |-> "", ffile |-> "", frank |-> "", to |-> "g4", promo |-> "", uci_kind |-> "invalid"],
  [tok |-> "g6-g7", san_kind |-> "match", piece |-> "", ffile |-> "g", frank |-> "6", to |-> "g7", promo |-> "", uci_kind |-> "invalid"],
  [tok |-> "g6f7", san_kind |-> "match", piece |-> "", ffile |-> "g", frank |-> "6", to |-> "f7", promo |-> "", uci_kind |-> "move"],
  [tok |-> "g6g7", san_kind |-> "match", piece |-> "", ffile |-> "g", frank |-> "6", to |-> "g7", promo |-> "", uci_kind |-> "move"],
  [tok |-> "g6g8", san_kind |-> "match", piece |-> "", ffile |-> "g", frank |-> "6", to |-> "g8", promo |-> "", uci_kind |-> "move"],
  [tok |-> "g6h7", san_kind |-> "match", piece |-> "", ffile |-> "g", frank |-> "6", to |-> "h7", promo |-> "", uci_kind |-> "move"],
  [tok |-> "g6xf7", san_kind |-> "match", piece |-> "", ffile |-> "g", frank |-> "6", to |-> "f7", promo |-> "", uci_kind |-> "invalid"],
  [tok |-> "g7", san_kind |-> "match", piece |-> "", ffile |-> "", frank |-> "", to |-> "g7", promo |-> "", uci_kind |-> "invalid"],
  [tok |-> "g7#", san_kind |-> "match", piece |-> "", ffile |-> "", frank |-> "", to |-> "g7", promo |-> "", uci_kind |-> "invalid"],
  [tok |-> "g7+", san_kind |-> "match", piece |-> "", ffile |-> "", frank |-> "", to |-> "g7", promo |-> "", uci_kind |-> "invalid"],
  [tok |-> "g8", san_kind |-> "match", piece |-> "", ffile |-> "", frank |-> "", to |-> "g8", promo |-> "", uci_kind |-> "invalid"],
  [tok |-> "g8e7", san_kind |-> "match", piece |-> "", ffile |-> "g", frank |-> "8", to |-> "e7", promo |-> "", uci_kind |-> "move"],
  [tok |-> "g8f6", san_kind |-> "match", piece |-> "", ffile |-> "g", frank |-> "8", to |-> "f6", promo |-> "", uci_kind |-> "move"],
  [tok |-> "g8h6", san_kind |-> "match", piece |-> "", ffile |-> "g", frank |-> "8", to |-> "h6", promo |-> "", uci_kind |-> "move"],
  [tok |-> "gxf7", san_kind |-> "match", piece |-> "", ffile |-> "g", frank |-> "", to |-> "f7", promo |-> "", uci_kind |-> "invalid"],
  [tok |-> "gxh7", san_kind |-> "match", piece |-> "", ffile |-> "g", frank |-> "", to |-> "h7", promo |-> "", uci_kind |-> "invalid"],
  [tok |-> "h2h3", san_kind |-> "match", piece |-> "", ffile |-> "h", frank |-> "2", to |-> "h3", promo |-> "", uci_kind |-> "move"],
  [tok |-> "h2h4", san_kind |-> "match", piece |-> "", ffile |-> "h", frank |-> "2", to |-> "h4", promo |-> "", uci_kind |-> "move"],
  [tok |-> "h3", san_kind |-> "match", piece |-> "", ffile |-> "", frank |-> "", to |-> "h3", promo |-> "", uci_kind |-> "invalid"],
  [tok |-> "h4", san_kind |-> "match", piece |-> "", ffile |-> "", frank |-> "", to |-> "h4", promo |-> "", uci_kind |-> "invalid"],
  [tok |-> "h7g6", san_kind |-> "match", piece |-> "", ffile |-> "h", frank |-> "7", to |-> "g6", promo |-> "", uci_kind |-> "move"],
  [tok |-> "h8h7", san_kind |-> "match", piece |-> "", ffile |-> "h", frank |-> "8", to |-> "h7", promo |-> "", uci_kind |-> "move"],
  [tok |-> "hello", san_kind |-> "invalid", piece |-> "", ffile |-> "", frank |-> "", to |-> "", promo |-> "", uci_kind |-> "invalid"],
  [tok |-> "hxg6", san_kind |-> "match", piece |-> "", ffile |-> "h", frank |-> "", to |-> "g6", promo |-> "", uci_kind |-> "invalid"]
  }

(***************************************************************************)
(* A recorded game of 64 plies from the standard start position.  Each     *)
(* entry is one ply as run_game stores it: the move's uci(), board.san(    *)
(* move) before the push, and board.fen() after board.push(move).          *)
(***************************************************************************)
GameLine ==
  <<
   [uci |-> "e2e4", san |-> "e4", fen |-> "rnbqkbnr/pppppppp/8/8/4P3/8/PPPP1PPP/RNBQKBNR b KQkq - 0 1"],
   [uci |-> "d7d5", san |-> "d5", fen |-> "rnbqkbnr/ppp1pppp/8/3p4/4P3/8/PPPP1PPP/RNBQKBNR w KQkq - 0 2"],
   [uci |-> "e4d5", san |-> "exd5", fen |-> "rnbqkbnr/ppp1pppp/8/3P4/8/8/PPPP1PPP/RNBQKBNR b KQkq - 0 2"],
   [uci |-> "d8d5", san |-> "Qxd5", fen |-> "rnb1kbnr/ppp1pppp/8/3q4/8/8/PPPP1PPP/RNBQKBNR w KQkq - 0 3"],
   [uci |-> "d2d4", san |-> "d4", fen |-> "rnb1kbnr/ppp1pppp/8/3q4/3P4/8/PPP2PPP/RNBQKBNR b KQkq - 0 3"],
   [uci |-> "e7e5", san |-> "e5", fen |-> "rnb1kbnr/ppp2ppp/8/3qp3/3P4/8/PPP2PPP/RNBQKBNR w KQkq - 0 4"],
   [uci |-> "d4e5", san |-> "dxe5", fen |-> "rnb1kbnr/ppp2ppp/8/3qP3/8/8/PPP2PPP/RNBQKBNR b KQkq - 0 4"],
   [uci |-> "d5d1", san |-> "Qxd1+", fen |-> "rnb1kbnr/ppp2ppp/8/4P3/8/8/PPP2PPP/RNBqKBNR w KQkq - 0 5"],
   [uci |-> "e1d1", san |-> "Kxd1", fen |-> "rnb1kbnr/ppp2ppp/8/4P3/8/8/PPP2PPP/RNBK1BNR b kq - 0 5"],
   [uci |-> "b8c6", san |-> "Nc6", fen |-> "r1b1kbnr/ppp2ppp/2n5/4P3/8/8/PPP2PPP/RNBK1BNR w kq - 1 6"],
   [uci |-> "c1h6", san |-> "Bh6", fen |-> "r1b1kbnr/ppp2ppp/2n4B/4P3/8/8/PPP2PPP/RN1K1BNR b kq - 2 6"],
   [uci |-> "c6e5", san |-> "Nxe5", fen |-> "r1b1kbnr/ppp2ppp/7B/4n3/8/8/PPP2PPP/RN1K1BNR w kq - 0 7"],
   [uci |-> "h6g7", san |-> "Bxg7", fen |-> "r1b1kbnr/ppp2pBp/8/4n3/8/8/PPP2PPP/RN1K1BNR b kq - 0 7"],
   [uci |-> "f8g7", san |-> "Bxg7", fen |-> "r1b1k1nr/ppp2pbp/8/4n3/8/8/PPP2PPP/RN1K1BNR w kq - 0 8"],
   [uci |-> "f1a6", san |-> "Ba6", fen |-> "r1b1k1nr/ppp2pbp/B7/4n3/8/8/PPP2PPP/RN1K2NR b kq - 1 8"],
   [uci |-> "e5c4", san |-> "Nc4", fen |-> "r1b1k1nr/ppp2pbp/B7/8/2n5/8/PPP2PPP/RN1K2NR w kq - 2 9"],
   [uci |-> "a6b7", san |-> "Bxb7", fen |-> "r1b1k1nr/pBp2pbp/8/8/2n5/8/PPP2PPP/RN1K2NR b kq - 0 9"],
   [uci |-> "c8b7", san |-> "Bxb7", fen |-> "r3k1nr/pbp2pbp/8/8/2n5/8/PPP2PPP/RN1K2NR w kq - 0 10"],
   [uci |-> "b1c3", san |-> "Nc3", fen |-> "r3k1nr/pbp2pbp/8/8/2n5/2N5/PPP2PPP/R2K2NR b kq - 1 10"],
   [uci |-> "g7c3", san |-> "Bxc3", fen |-> "r3k1nr/pbp2p1p/8/8/2n5/2b5/PPP2PPP/R2K2NR w kq - 0 11"],
   [uci |-> "g1f3", san |-> "Nf3", fen |-> "r3k1nr/pbp2p1p/8/8/2n5/2b2N2/PPP2PPP/R2K3R b kq - 1 11"],
   [uci |-> "b7f3", san |-> "Bxf3+", fen |-> "r3k1nr/p1p2p1p/8/8/2n5/2b2b2/PPP2PPP/R2K3R w kq - 0 12"],
   [uci |-> "d1c1", san |-> "Kc1", fen |-> "r3k1nr/p1p2p1p/8/8/2n5/2b2b2/PPP2PPP/R1K4R b kq - 1 12"],
   [uci |-> "c3b2", san |-> "Bxb2+", fen |-> "r3k1nr/p1p2p1p/8/8/2n5/5b2/PbP2PPP/R1K4R w kq - 0 13"],
   [uci |-> "c1b1", san |-> "Kb1", fen |-> "r3k1nr/p1p2p1p/8/8/2n5/5b2/PbP2PPP/RK5R b kq - 1 13"],
   [uci |-> "b2a1", san |-> "Bxa1", fen |-> "r3k1nr/p1p2p1p/8/8/2n5/5b2/P1P2PPP/bK5R w kq - 0 14"],
   [uci |-> "b1a1", san |-> "Kxa1", fen |-> "r3k1nr/p1p2p1p/8/8/2n5/5b2/P1P2PPP/K6R b kq - 0 14"],
   [uci |-> "f3d5", san |-> "Bd5", fen |-> "r3k1nr/p1p2p1p/8/3b4/2n5/8/P1P2PPP/K6R w kq - 1 15"],
   [uci |-> "h1d1", san |-> "Rd1", fen |-> "r3k1nr/p1p2p1p/8/3b4/2n5/8/P1P2PPP/K2R4 b kq - 2 15"],
   [uci |-> "e8e7", san |-> "Ke7", fen |-> "r5nr/p1p1kp1p/8/3b4/2n5/8/P1P2PPP/K2R4 w - - 3 16"],
   [uci |-> "d1d5", san |-> "Rxd5", fen |-> "r5nr/p1p1kp1p/8/3R4/2n5/8/P1P2PPP/K7 b - - 0 16"],
   [uci |-> "e7f6", san |-> "Kf6", fen |-> "r5nr/p1p2p1p/5k2/3R4/2n5/8/P1P2PPP/K7 w - - 1 17"],
   [uci |-> "d5d7", san |-> "Rd7", fen |-> "r5nr/p1pR1p1p/5k2/8/2n5/8/P1P2PPP/K7 b - - 2 17"],
   [uci |-> "f6g7", san |-> "Kg7", fen |-> "r5nr/p1pR1pkp/8/8/2n5/8/P1P2PPP/K7 w - - 3 18"],
   [uci |-> "d7c7", san |-> "Rxc7", fen |-> "r5nr/p1R2pkp/8/8/2n5/8/P1P2PPP/K7 b - - 0 18"],
   [uci |-> "g8f6", san |-> "Nf6", fen |-> "r6r/p1R2pkp/5n2/8/2n5/8/P1P2PPP/K7 w - - 1 19"],
   [uci |-> "c7c8", san |-> "Rc8", fen |-> "r1R4r/p4pkp/5n2/8/2n5/8/P1P2PPP/K7 b - - 2 19"],
   [uci |-> "a7a6", san |-> "a6", fen |-> "r1R4r/5pkp/p4n2/8/2n5/8/P1P2PPP/K7 w - - 0 20"],
   [uci |-> "c8a8", san |-> "Rxa8", fen |-> "R6r/5pkp/p4n2/8/2n5/8/P1P2PPP/K7 b - - 0 20"],
   [uci |-> "h8e8", san |-> "Re8", fen |-> "R3r3/5pkp/p4n2/8/2n5/8/P1P2PPP/K7 w - - 1 21"],
   [uci |-> "a8e8", san |-> "Rxe8", fen |-> "4R3/5pkp/p4n2/8/2n5/8/P1P2PPP/K7 b - - 0 21"],
   [uci |-> "f6e8", san |-> "Nxe8", fen |-> "4n3/5pkp/p7/8/2n5/8/P1P2PPP/K7 w - - 0 22"],
   [uci |-> "f2f4", san |-> "f4", fen |-> "4n3/5pkp/p7/8/2n2P2/8/P1P3PP/K7 b - - 0 22"],
   [uci |-> "c4e3", san |-> "Ne3", fen |-> "4n3/5pkp/p7/8/5P2/4n3/P1P3PP/K7 w - - 1 23"],
   [uci |-> "g2g4", san |-> "g4", fen |-> "4n3/5pkp/p7/8/5PP1/4n3/P1P4P/K7 b - - 0 23"],
   [uci |-> "e3c2", san |-> "Nxc2+", fen |-> "4n3/5pkp/p7/8/5PP1/8/P1n4P/K7 w - - 0 24"],
   [uci |-> "a1b1", san |-> "Kb1", fen |-> "4n3/5pkp/p7/8/5PP1/8/P1n4P/1K6 b - - 1 24"],
   [uci |-> "c2b4", san |-> "Nb4", fen |-> "4n3/5pkp/p7/8/1n3PP1/8/P6P/1K6 w - - 2 25"],
   [uci |-> "b1a1", san |-> "Ka1", fen |-> "4n3/5pkp/p7/8/1n3PP1/8/P6P/K7 b - - 3 25"],
   [uci |-> "b4d5", san |-> "Nd5", fen |-> "4n3/5pkp/p7/3n4/5PP1/8/P6P/K7 w - - 4 26"],
   [uci |-> "h2h4", san |-> "h4", fen |-> "4n3/5pkp/p7/3n4/5PPP/8/P7/K7 b - - 0 26"],
   [uci |-> "d5c3", san |-> "Nc3", fen |-> "4n3/5pkp/p7/8/5PPP/2n5/P7/K7 w - - 1 27"],
   [uci |-> "f4f5", san |-> "f5", fen |-> "4n3/5pkp/p7/5P2/6PP/2n5/P7/K7 b - - 0 27"],
   [uci |-> "e8f6", san |-> "Nf6", fen |-> "8/5pkp/p4n2/5P2/6PP/2n5/P7/K7 w - - 1 28"],
   [uci |-> "g4g5", san |-> "g5", fen |-> "8/5pkp/p4n2/5PP1/7P/2n5/P7/K7 b - - 0 28"],
   [uci |-> "f6g8", san |-> "Ng8", fen |-> "6n1/5pkp/p7/5PP1/7P/2n5/P7/K7 w - - 1 29"],
   [uci |-> "h4h5", san |-> "h5", fen |-> "6n1/5pkp/p7/5PPP/8/2n5/P7/K7 b - - 0 29"],
   [uci |-> "g7h8", san |-> "Kh8", fen |-> "6nk/5p1p/p7/5PPP/8/2n5/P7/K7 w - - 1 30"],
   [uci |-> "f5f6", san |-> "f6", fen |-> "6nk/5p1p/p4P2/6PP/8/2n5/P7/K7 b - - 0 30"],
   [uci |-> "a6a5", san |-> "a5", fen |-> "6nk/5p1p/5P2/p5PP/8/2n5/P7/K7 w - - 0 31"],
   [uci |-> "g5g6", san |-> "g6", fen |-> "6nk/5p1p/5PP1/p6P/8/2n5/P7/K7 b - - 0 31"],
   [uci |-> "a5a4", san |-> "a4", fen |-> "6nk/5p1p/5PP1/7P/p7/2n5/P7/K7 w - - 0 32"],
   [uci |-> "h5h6", san |-> "h6", fen |-> "6nk/5p1p/5PPP/8/p7/2n5/P7/K7 b - - 0 32"],
   [uci |-> "a4a3", san |-> "a3", fen |-> "6nk/5p1p/5PPP/8/8/p1n5/P7/K7 w - - 0 33"]
  >>

\* the position the recorded game has reached: white to move, three legal
\* moves, one of them mate
EndgameFen == GameLine[Len(GameLine)].fen


Pos(fen) == CHOOSE p \in PositionTable : p.fen = fen

Fens == {p.fen : p \in PositionTable}

ExpandedFens == {p.fen : p \in {q \in PositionTable : q.expanded}}

Tok(t) == CHOOSE r \in TokenTable : r.tok = t

Tokens == {r.tok : r \in TokenTable}

\* board.legal_moves
legal_moves(fen) == Pos(fen).moves

\* board.is_game_over()
is_game_over(fen) == Pos(fen).over

\* str(board)
board_ascii(fen) == Pos(fen).ascii

\* chess.Move.null(), with the position board.push(Move.null()) leads to
NullMove(fen) ==
  [uci |-> "0000", san |-> "--", piece |-> "", ffile |-> "", frank |-> "",
   to |-> "", promo |-> "", fen |-> Pos(fen).null_fen]

\* board.push(move); board.fen()
push(fen, move) == move.fen

Moved(m) == [kind |-> "move", move |-> m]
Raised(e) == [kind |-> "raise", exc |-> e]
NoMove == [kind |-> "none"]

\* BB_BACKRANKS
BackRank(sq) ==
  sq \in {"a1", "b1", "c1", "d1", "e1", "f1", "g1", "h1",
          "a8", "b8", "c8", "d8", "e8", "f8", "g8", "h8"}

\* square_file(square), as the file's letter
FileOf(sq) ==
  CHOOSE f \in {"a", "b", "c", "d", "e", "f", "g", "h"} :
    sq \in {f \o r : r \in {"1", "2", "3", "4", "5", "6", "7", "8"}}

\* Board.find_move(from_square, to_square, promotion) as parse_san uses it:
\* a pawn reaching the back rank without a promotion piece is given a queen,
\* and the result is then refused because move.promotion != promotion.
find_move(fen, g) ==
  LET cand == {m \in legal_moves(fen) :
                 m.ffile = g.ffile /\ m.frank = g.frank /\ m.to = g.to}
      promo == IF g.promo = "" /\ BackRank(g.to) /\ \E m \in cand : m.piece = "P"
               THEN "q" ELSE g.promo
      hit == {m \in cand : m.promo = promo}
  IN  IF hit = {} THEN Raised("IllegalMoveError")
      ELSE IF promo # g.promo THEN Raised("IllegalMoveError")
      ELSE Moved(CHOOSE m \in hit : TRUE)

\* Board.parse_san(san)
parse_san(fen, t) ==
  LET g == Tok(t)
      matched ==
        {m \in legal_moves(fen) :
           /\ m.to = g.to
           /\ g.ffile # "" => m.ffile = g.ffile
           /\ g.frank # "" => m.frank = g.frank
           /\ IF g.piece # "" THEN m.piece = g.piece
              ELSE m.piece = "P" /\ (g.ffile = "" => m.ffile = FileOf(g.to))
           /\ m.promo = g.promo}
  IN  CASE g.san_kind \in {"castle_k", "castle_q"} -> Raised("IllegalMoveError")
        [] g.san_kind = "null" -> Moved(NullMove(fen))
        [] g.san_kind = "invalid" -> Raised("InvalidMoveError")
        [] OTHER ->
             IF g.piece = "" /\ g.ffile # "" /\ g.frank # "" THEN find_move(fen, g)
             ELSE IF Cardinality(matched) > 1 THEN Raised("AmbiguousMoveError")
             ELSE IF matched = {} THEN Raised("IllegalMoveError")
             ELSE Moved(CHOOSE m \in matched : TRUE)

\* Board.parse_uci(uci): Move.from_uci, the null move returned as it is,
\* any other move checked with is_legal
parse_uci(fen, t) ==
  LET g == Tok(t)
      hit == {m \in legal_moves(fen) :
                m.uci = t /\ g.uci_kind = "move"}
  IN  CASE g.uci_kind = "invalid" -> Raised("InvalidMoveError")
        [] g.uci_kind = "null" -> Moved(NullMove(fen))
        [] g.uci_kind = "drop" -> Raised("IllegalMoveError")
        [] OTHER ->
             IF hit = {} THEN Raised("IllegalMoveError")
             ELSE Moved(CHOOSE m \in hit : TRUE)

\* validate_and_get_move(board, move_str): None for a null or empty string;
\* parse_san, whose InvalidMoveError and AmbiguousMoveError are swallowed;
\* then parse_uci, whose InvalidMoveError is swallowed.  IllegalMoveError is
\* a sibling of those two under ValueError and is caught by neither handler.
validate_and_get_move(fen, move_str) ==
  IF move_str = NULL \/ move_str = "" THEN NoMove
  ELSE LET s == parse_san(fen, move_str)
       IN  IF s.kind = "move" THEN s
           ELSE IF s.exc \notin {"InvalidMoveError", "AmbiguousMoveError"} THEN s
           ELSE LET u == parse_uci(fen, move_str)
                IN  IF u.kind = "move" THEN u
                    ELSE IF u.exc # "InvalidMoveError" THEN u
                    ELSE NoMove

(***************************************************************************)
(* Bounds.                                                                 *)
(***************************************************************************)
\* The oracle stops answering once this many move records have been added
\* to the ones stored at the start.
MaxPly == 1

\* Polls of the waiting window; stands for max_wait = 100 (game_engine.py:159).
MaxWait == 2

\* run_game is launched at most this many times.
MaxLaunch == 2

\* broadcast and close_game are called at most this many times.
MaxBusOps == 3
MaxLines == 2

Loops == 1..MaxLaunch        \* run_game tasks, in order of launch
Clients == {"c1", "c2"}      \* HTTP clients, each with one request in flight
Codes == {"g1", "g2"}        \* event bus: game codes
Subs == {"q1", "q2"}

(***************************************************************************)
(* State.                                                                  *)
(***************************************************************************)
VARIABLES
  db,           \* the games row of the match (models.Game columns)
  db_moves,     \* the moves rows of the match, in insertion (id) order
  conns,        \* sse_manager._connections[game_code]: the attached queues' owners
  pc,           \* per run_game task: the await it is suspended on
  game,         \* per run_game task: its session's Game object (current attributes)
  orig,         \* per run_game task: the attribute values its session last loaded or flushed
  board,        \* per run_game task: its chess.Board, as board.fen()
  move_number,  \* per run_game task: the local move_number
  polls,        \* per run_game task: completed iterations of the waiting loop
  turn,         \* per run_game task: the turn in progress (pending Move row, event)
  cpc,          \* per client: where its request handler is suspended
  creq,         \* per client: the handler's locals
  published,    \* every move / game_over event handed to sse_manager.broadcast
  r_board,      \* resolver harness: the position handed to validate_and_get_move
  r_token,      \* resolver harness: the move string handed to it
  r_out,        \* resolver harness: what the call produced ("pending" before it)
  connections,  \* event bus: SSEManager._connections, game code -> list of queues
  queues,       \* event bus: the content of each subscribe call's asyncio.Queue
  sub,          \* event bus: each subscribe call's generator: where it is, its code,
                \*            and the calls of bus_log made while its queue was listed
  received,     \* event bus: what each generator has yielded
  bus_log,      \* event bus: the broadcast and close_game calls made so far
  procs,        \* oracle: what the claude process may do when it is run
  ply0,         \* oracle: the number of move records stored at the start
  p_text,       \* parser: the text given to parse_chess_response
  p_out,        \* parser: its result
  bcast         \* event bus: the iteration of a broadcast call, put by put

rvars == <<r_board, r_token, r_out>>
lvars == <<pc, game, orig, board, move_number, polls, turn>>
cvars == <<cpc, creq>>
evars == <<db, db_moves, conns, lvars, cvars, published>>
bvars == <<connections, queues, sub, received, bus_log>>
ocvars == <<procs, ply0>>
pvars == <<p_text, p_out>>
ivars == <<bcast>>
xvars == <<ocvars, pvars, ivars>>
ovars == <<bvars, xvars>>
vars == <<evars, rvars, ovars>>

(***************************************************************************)
(* The oracle (llm_service.call_claude_cli).  A response text is a         *)
(* sequence of lines; a line is "LABEL: value" with one of the labels      *)
(* parse_chess_response looks for and a value that is not blank, or free   *)
(* text (label "") in which no label occurs.  The empty sequence is the    *)
(* empty text of a failed call.                                            *)
(***************************************************************************)
Line(label, value) == [label |-> label, value |-> value]

\* a JSON string and the JSON null, as json.loads returns them
JStr(text) == [type |-> "str", str |-> text]
JNull == [type |-> "NoneType", str |-> <<>>]

\* the answers of a claude process that prints the JSON object the CLI
\* prints, without a session id
OracleTexts ==
  {<<Line("MOVE", "g7#"), Line("COMMENT", "mate")>>,
   <<Line("MOVE", "e4")>>,
   <<Line("", "I resign"), Line("COMMENTARY", "takes")>>,
   <<Line("MOVE", "--")>>}

\* what stdout holds when it is not the JSON the CLI prints
RawTexts ==
  {<<Line("", "I resign")>>,
   <<Line("MOVE", "g7#")>>,
   <<Line("MOVE", "f7")>>,
   <<Line("MOVE", "e4"), Line("COMMENTARY", "takes")>>,
   <<Line("MOVE", "gxf7"), Line("COMMENTARY", "takes")>>,
   <<Line("MOVE", "hello"), Line("COMMENT", "hmm")>>,
   <<Line("", "g7 wins")>>}

\* the JSON objects on stdout: with or without "result" and "session_id"
JsonObjects ==
  {[result |-> r, session_id |-> s] : r \in {JStr(t) : t \in RawTexts} \cup {JNull},
                                      s \in {"s2", NULL}}
    \cup {[result |-> r] : r \in {JStr(t) : t \in RawTexts} \cup {JNull}}
    \cup {[session_id |-> "s2"]}

\* what the claude process does
ProcOutcomes ==
  {[kind |-> "not_found"], [kind |-> "exception"], [kind |-> "exit", returncode |-> 1]}
    \cup {[kind |-> "exit", returncode |-> 0, json |-> "invalid", raw |-> t] : t \in RawTexts}
    \cup {[kind |-> "exit", returncode |-> 0, json |-> "array"]}
    \cup {[kind |-> "exit", returncode |-> 0, json |-> "object", data |-> d] : d \in JsonObjects}

\* a claude process that answers in one of these ways at each call: no
\* executable; a failure exit; a move with a new session id; no text with a new session id;
\* a move that is not legal with a new session id; mate with "session_id": null
SessionProcs ==
  {[kind |-> "not_found"], [kind |-> "exit", returncode |-> 1]}
    \cup {[kind |-> "exit", returncode |-> 0, json |-> "object", data |-> d] :
            d \in {[result |-> JStr(<<Line("MOVE", "gxf7"), Line("COMMENTARY", "takes")>>),
                     session_id |-> "s2"],
                    [result |-> JNull, session_id |-> "s2"],
                    [result |-> JStr(<<Line("MOVE", "f7")>>), session_id |-> "s2"],
                    [result |-> JStr(<<Line("MOVE", "g7#")>>), session_id |-> NULL]}}

\* the answers given to a new game: the ones that name a move (an answer
\* that names none makes run_game choose among the twenty legal moves of the
\* start position)
OpeningTexts == {t \in OracleTexts : \E i \in 1..Len(t) : t[i].label = "MOVE"}

\* the claude process printing {"result": text} for one of the texts
TextProcs(texts) ==
  {[kind |-> "exit", returncode |-> 0, json |-> "object", data |-> [result |-> JStr(t)]] :
     t \in texts}

LLMResponse(text, session_id) == [text |-> text, session_id |-> session_id]

\* call_claude_cli(prompt, session_id): the LLMResponse it returns
call_claude_cli(proc, session_id) ==
  IF proc.kind = "not_found" THEN LLMResponse(JStr(<<>>), NULL)
  ELSE IF proc.kind = "exception" THEN LLMResponse(JStr(<<>>), session_id)
  ELSE IF proc.returncode # 0 THEN LLMResponse(JStr(<<>>), session_id)
  ELSE IF proc.json = "invalid" THEN LLMResponse(JStr(proc.raw), session_id)
  ELSE IF proc.json = "array" THEN LLMResponse(JStr(<<>>), session_id)
  ELSE LLMResponse(IF "result" \in DOMAIN proc.data THEN proc.data.result ELSE JStr(<<>>),
                   IF "session_id" \in DOMAIN proc.data THEN proc.data.session_id
                   ELSE session_id)

(***************************************************************************)
(* Event bus: sse_manager.py.  Queue.put on an unbounded asyncio.Queue     *)
(* never suspends, so broadcast and close_game run from their first to     *)
(* their last line without another coroutine in between; a generator of    *)
(* subscribe runs from one `await queue.get()' to the next, or to its end. *)
(***************************************************************************)
\* json of the n-th event handed to the bus
Payloads == <<"e1", "e2", "e3", "e4", "e5", "e6">>

\* sse_message = f"data: {data}\n\n"
sse_message(data) == "data: " \o data \o "\n\n"

\* SSEManager.get_subscriber_count(game_code) on _connections
subscriber_count(code) ==
  IF code \in DOMAIN connections THEN Len(connections[code]) ELSE 0

\* list.remove(x): the list without its first x
RECURSIVE ListRemove(_, _)
ListRemove(list, x) ==
  IF list = <<>> THEN <<>>
  ELSE IF Head(list) = x THEN Tail(list)
  ELSE <<Head(list)>> \o ListRemove(Tail(list), x)

\* the queues of a code's list, as a set
Listed(code) ==
  IF code \in DOMAIN connections
  THEN {connections[code][i] : i \in 1..Len(connections[code])}
  ELSE {}

\* finally clause that removes the first queue of the list
Finally_RemovesFirst(s) ==
  LET code == sub[s].code
      rest == Tail(connections[code])
  IN  connections' =
        IF rest = <<>>
        THEN [c \in DOMAIN connections \ {code} |-> connections[c]]
        ELSE [connections EXCEPT ![code] = rest]

\* the finally clause of subscribe: the queue leaves the list, and an empty
\* list leaves the dict
Finally(s) ==
  LET code == sub[s].code
      rest == ListRemove(connections[code], s)
  IN  connections' = IF rest = <<>>
                     THEN [c \in DOMAIN connections \ {code} |-> connections[c]]
                     ELSE [connections EXCEPT ![code] = rest]

\* the subscribe calls whose generator waits on a queue of the code
Attached(code) == {s \in Subs : sub[s].pc = "get" /\ sub[s].code = code}

\* put(item) on every queue of the code's list
PutAll(code, item) ==
  queues' = [q \in Subs |-> IF q \in Listed(code) THEN Append(queues[q], item)
                            ELSE queues[q]]

\* subscribe(game_code) up to its first await: a new queue, appended to the
\* code's list (defaultdict creates the list)
Subscribe(s, code) ==
  /\ sub[s].pc = "new"
  /\ connections' =
       IF code \in DOMAIN connections
       THEN [connections EXCEPT ![code] = Append(@, s)]
       ELSE [c \in DOMAIN connections \cup {code} |->
               IF c = code THEN <<s>> ELSE connections[c]]
  /\ sub' = [sub EXCEPT ![s] = [pc |-> "get", code |-> code,
                                from |-> Len(bus_log), to |-> -1]]
  /\ UNCHANGED <<queues, received, bus_log, evars, rvars, xvars>>

\* broadcast that puts the message on the queues of every code
Broadcast_EveryCode(code) ==
  /\ Len(bus_log) < MaxBusOps
  /\ LET msg == sse_message(Payloads[Len(bus_log) + 1])
     IN  /\ bus_log' = Append(bus_log, [op |-> "broadcast", code |-> code, item |-> msg,
                                        count |-> Cardinality(Attached(code))])
         /\ IF code \notin DOMAIN connections
            THEN UNCHANGED queues
            ELSE queues' = [q \in Subs |->
                              IF \E c \in DOMAIN connections : q \in Listed(c)
                              THEN Append(queues[q], msg) ELSE queues[q]]
  /\ UNCHANGED <<connections, sub, received, evars, rvars, xvars>>

\* broadcast that indexes the defaultdict, which creates the code's list
Broadcast_CreatesEntry(code) ==
  /\ Len(bus_log) < MaxBusOps
  /\ LET msg == sse_message(Payloads[Len(bus_log) + 1])
     IN  /\ bus_log' = Append(bus_log, [op |-> "broadcast", code |-> code, item |-> msg,
                                        count |-> Cardinality(Attached(code))])
         /\ PutAll(code, msg)
  /\ connections' = IF code \in DOMAIN connections THEN connections
                    ELSE [c \in DOMAIN connections \cup {code} |->
                            IF c = code THEN <<>> ELSE connections[c]]
  /\ UNCHANGED <<sub, received, evars, rvars, xvars>>

\* broadcast(game_code, event)
Broadcast(code) ==
  /\ Len(bus_log) < MaxBusOps
  /\ LET msg == sse_message(Payloads[Len(bus_log) + 1])
     IN  /\ bus_log' = Append(bus_log, [op |-> "broadcast", code |-> code, item |-> msg,
                                        count |-> Cardinality(Attached(code))])
         /\ IF code \notin DOMAIN connections
            THEN UNCHANGED queues
            ELSE PutAll(code, msg)
  /\ UNCHANGED <<connections, sub, received, evars, rvars, xvars>>

\* close_game that stops after the first queue of the list
CloseGame_FirstOnly(code) ==
  /\ Len(bus_log) < MaxBusOps
  /\ bus_log' = Append(bus_log, [op |-> "close_game", code |-> code, item |-> NULL,
                                 count |-> Cardinality(Attached(code))])
  /\ IF code \notin DOMAIN connections
     THEN UNCHANGED queues
     ELSE queues' = [queues EXCEPT ![connections[code][1]] = Append(@, NULL)]
  /\ UNCHANGED <<connections, sub, received, evars, rvars, xvars>>

\* close_game(game_code)
CloseGame(code) ==
  /\ Len(bus_log) < MaxBusOps
  /\ bus_log' = Append(bus_log, [op |-> "close_game", code |-> code, item |-> NULL,
                                 count |-> Cardinality(Attached(code))])
  /\ IF code \notin DOMAIN connections
     THEN UNCHANGED queues
     ELSE PutAll(code, NULL)
  /\ UNCHANGED <<connections, sub, received, evars, rvars, xvars>>

\* queue.get() returns: None ends the generator through finally; anything
\* else is yielded and the generator comes back to queue.get()
Receive(s) ==
  /\ sub[s].pc = "get"
  /\ queues[s] # <<>>
  /\ queues' = [queues EXCEPT ![s] = Tail(@)]
  /\ IF Head(queues[s]) = NULL
     THEN /\ Finally(s)
          /\ sub' = [sub EXCEPT ![s].pc = "ended", ![s].to = Len(bus_log)]
          /\ UNCHANGED received
     ELSE /\ received' = [received EXCEPT ![s] = Append(@, Head(queues[s]))]
          /\ UNCHANGED <<connections, sub>>
  /\ UNCHANGED <<bus_log, evars, rvars, xvars>>

\* the client disconnects: the generator is closed where it waits, and its
\* finally clause runs
Disconnect(s) ==
  /\ sub[s].pc = "get"
  /\ Finally(s)
  /\ sub' = [sub EXCEPT ![s].pc = "closed", ![s].to = Len(bus_log)]
  /\ UNCHANGED <<queues, received, bus_log, evars, rvars, xvars>>

BusIdle ==
  /\ bcast = [kind |-> "none", code |-> NULL, item |-> NULL, idx |-> 0]
  /\ connections = << >>
  /\ queues = [q \in Subs |-> <<>>]
  /\ sub = [q \in Subs |-> [pc |-> "new", code |-> NULL, from |-> 0, to |-> -1]]
  /\ received = [q \in Subs |-> <<>>]
  /\ bus_log = <<>>


\* the oracle of a match whose stored rows are `rows': the claude process
\* prints one of the answers of OracleTexts, and one that names a move when
\* the match has no move yet
OracleAt(rows) ==
  /\ procs = TextProcs(IF rows = <<>> THEN OpeningTexts ELSE OracleTexts)
  /\ ply0 = Len(rows)

OracleIdle == OracleAt(<<>>)

\* parse_chess_response not called
ParserIdle ==
  /\ p_text = <<>>
  /\ p_out = [kind |-> "idle"]

(***************************************************************************)
(* Persistence: a session's commit flushes the attributes whose current    *)
(* value differs from the value the session last loaded or flushed         *)
(* (SQLAlchemy's unit of work), and inserts the pending rows.              *)
(***************************************************************************)
Flush(row, cur, old) ==
  [f \in DOMAIN row |-> IF cur[f] # old[f] THEN cur[f] ELSE row[f]]

\* Game(game_code=...) with the column defaults of models.Game
NewGame ==
  [status |-> "waiting_for_prompts", white_prompt |-> NULL, black_prompt |-> NULL,
   white_session_id |-> NULL, black_session_id |-> NULL,
   board_fen |-> StartFen, current_turn |-> "white", result |-> NULL,
   is_paused |-> FALSE]

\* scalar_one_or_none() of a game code that is not stored
NoGame == [found |-> FALSE]

\* sse_manager.get_subscriber_count(game_code)
get_subscriber_count == Cardinality(conns)

\* get_game_result(board)[0]
get_game_result(fen) == Pos(fen).result

NoTurn == [active |-> FALSE]

\* lines 179-200: the session id of the side to move read from the object;
\* with one the call resumes the session, without one it carries the system
\* prompt.  A turn suspended in call_claude_cli holds these arguments.
OracleCall(g, fen) ==
  LET session_id == IF Pos(fen).turn = "w" THEN g.white_session_id
                    ELSE g.black_session_id
  IN  IF session_id \notin {NULL, ""}
      THEN [active |-> FALSE, session_id |-> session_id, system_prompt |-> FALSE]
      ELSE [active |-> FALSE, session_id |-> NULL, system_prompt |-> TRUE]
Exited == {"none", "paused", "finished", "crashed", "not_found"}
Running(l) == pc[l] \notin Exited
TurnPcs == {"oracle", "move_commit", "audio"}

VALID_EMOTIONS ==
  {"grandmaster_trance", "instant_regret", "smug_trap_setter", "bewildered_analyst",
   "stone_wall", "predator", "resigned_king", "impatient_speedster", "eureka_moment"}

Labels == {"MOVE", "COMMENT", "COMMENTARY", "MY_EMOTION", "OPPONENT_EMOTION", ""}

\* re.IGNORECASE: the label as the patterns spell it
UpperLabel(label) ==
  CASE label = "move" -> "MOVE"
    [] label = "my_emotion" -> "MY_EMOTION"
    [] label = "opponent_emotion" -> "OPPONENT_EMOTION"
    [] OTHER -> label

\* (\S+): the value up to its first white space
first_token(value) ==
  CASE value = "predator now" -> "predator"
    [] value = "I resign" -> "I"
    [] OTHER -> value

\* extract_field: re.search finds the first line "label: value" that the
\* pattern's tail accepts: the end of the text, or a next line whose label
\* is one of `followers'
extract_field(text, label, followers) ==
  LET hits == {i \in 1..Len(text) :
                 /\ UpperLabel(text[i].label) = label
                 /\ i = Len(text) \/ UpperLabel(text[i + 1].label) \in followers}
  IN  IF hits = {} THEN NULL
      ELSE text[CHOOSE i \in hits : \A j \in hits : i <= j].value

\* extract_field with the emotion patterns, which end at (\S+)
extract_tag(text, label) ==
  LET value == extract_field(text, label, Labels)
  IN  IF value = NULL THEN NULL ELSE first_token(value)

\* parse_chess_response without the check against VALID_EMOTIONS
parse_chess_response_Unchecked(text) ==
  [move |-> extract_field(text, "MOVE", Labels),
   comment |-> extract_field(text, "COMMENT",
                             {"COMMENTARY", "MY_EMOTION", "OPPONENT_EMOTION"}),
   commentary |-> extract_field(text, "COMMENTARY",
                                {"MY_EMOTION", "OPPONENT_EMOTION"}),
   my_emotion |-> extract_tag(text, "MY_EMOTION"),
   opponent_emotion |-> extract_tag(text, "OPPONENT_EMOTION")]

\* parse_chess_response(text)
parse_chess_response(text) ==
  LET my_emotion == extract_tag(text, "MY_EMOTION")
      opponent_emotion == extract_tag(text, "OPPONENT_EMOTION")
  IN  [move |-> extract_field(text, "MOVE", Labels),
       comment |-> extract_field(text, "COMMENT",
                                 {"COMMENTARY", "MY_EMOTION", "OPPONENT_EMOTION"}),
       commentary |-> extract_field(text, "COMMENTARY",
                                    {"MY_EMOTION", "OPPONENT_EMOTION"}),
       my_emotion |-> IF my_emotion # NULL /\ my_emotion \notin VALID_EMOTIONS
                      THEN "stone_wall" ELSE my_emotion,
       opponent_emotion |-> IF opponent_emotion # NULL
                               /\ opponent_emotion \notin VALID_EMOTIONS
                            THEN "stone_wall" ELSE opponent_emotion]

(***************************************************************************)
(* run_game                                                                *)
(***************************************************************************)
\* TurnTop without the subscriber check of lines 173-177
TurnTop_NoSubscriberCheck(l, g, fen) ==
  IF is_game_over(fen)
  THEN /\ game' = [game EXCEPT ![l] = [g EXCEPT !.status = "completed",
                                                !.result = get_game_result(fen)]]
       /\ pc' = [pc EXCEPT ![l] = "over_commit"]
       /\ turn' = [turn EXCEPT ![l] = NoTurn]
  ELSE /\ game' = [game EXCEPT ![l] = g]
       /\ pc' = [pc EXCEPT ![l] = "oracle"]
       /\ turn' = [turn EXCEPT ![l] = OracleCall(g, fen)]

\* The top of the while loop, reached without suspending: game over, or no
\* subscriber, or the oracle is called for the side to move.
TurnTop(l, g, fen) ==
  IF is_game_over(fen)
  THEN /\ game' = [game EXCEPT ![l] = [g EXCEPT !.status = "completed",
                                                !.result = get_game_result(fen)]]
       /\ pc' = [pc EXCEPT ![l] = "over_commit"]
       /\ turn' = [turn EXCEPT ![l] = NoTurn]
  ELSE IF get_subscriber_count = 0
  THEN /\ game' = [game EXCEPT ![l] = [g EXCEPT !.is_paused = TRUE]]
       /\ pc' = [pc EXCEPT ![l] = "pause_commit"]
       /\ turn' = [turn EXCEPT ![l] = NoTurn]
  ELSE /\ game' = [game EXCEPT ![l] = g]
       /\ pc' = [pc EXCEPT ![l] = "oracle"]
       /\ turn' = [turn EXCEPT ![l] = OracleCall(g, fen)]

\* A task whose coroutine has returned or raised keeps no locals.
Drop(l, how) ==
  /\ pc' = [pc EXCEPT ![l] = how]
  /\ game' = [game EXCEPT ![l] = NewGame]
  /\ orig' = [orig EXCEPT ![l] = NewGame]
  /\ board' = [board EXCEPT ![l] = StartFen]
  /\ move_number' = [move_number EXCEPT ![l] = 0]
  /\ polls' = [polls EXCEPT ![l] = 0]
  /\ turn' = [turn EXCEPT ![l] = NoTurn]

\* run_game that goes on with a new Game when the select found none
LoadGame_CreatesGame(l) ==
  /\ pc[l] = "start"
  /\ LET row == IF db = NoGame THEN NewGame ELSE db
     IN  /\ game' = [game EXCEPT ![l] = [row EXCEPT !.status = "in_progress",
                                                     !.is_paused = FALSE]]
         /\ orig' = [orig EXCEPT ![l] = row]
         /\ board' = [board EXCEPT ![l] = row.board_fen]
         /\ db' = row
  /\ pc' = [pc EXCEPT ![l] = "start_commit"]
  /\ UNCHANGED <<db_moves, conns, move_number, polls, turn, cvars, published, rvars, ovars>>

\* select(Game) returns: without a game run_game returns.  Otherwise the
\* board is built from the stored position, the started event is broadcast,
\* status and is_paused are set on the object.
LoadGame(l) ==
  /\ pc[l] = "start"
  /\ IF db = NoGame
     THEN /\ pc' = [pc EXCEPT ![l] = "not_found"]
          /\ UNCHANGED <<game, orig, board>>
     ELSE /\ game' = [game EXCEPT ![l] = [db EXCEPT !.status = "in_progress",
                                                    !.is_paused = FALSE]]
          /\ orig' = [orig EXCEPT ![l] = db]
          /\ board' = [board EXCEPT ![l] = db.board_fen]
          /\ pc' = [pc EXCEPT ![l] = "start_commit"]
  /\ UNCHANGED <<db, db_moves, conns, move_number, polls, turn, cvars, published, rvars, ovars>>

\* the commit of status and is_paused returns; the count query is issued
StartCommit(l) ==
  /\ pc[l] = "start_commit"
  /\ db' = Flush(db, game[l], orig[l])
  /\ orig' = [orig EXCEPT ![l] = game[l]]
  /\ pc' = [pc EXCEPT ![l] = "count"]
  /\ UNCHANGED <<db_moves, conns, game, board, move_number, polls, turn, cvars,
                 published, rvars, ovars>>

\* the count of stored moves returns; first iteration of the waiting loop
CountMoves(l) ==
  /\ pc[l] = "count"
  /\ move_number' = [move_number EXCEPT ![l] = (Len(db_moves) \div 2) + 1]
  /\ IF get_subscriber_count > 0
     THEN /\ TurnTop(l, game[l], board[l])
          /\ UNCHANGED polls
     ELSE /\ pc' = [pc EXCEPT ![l] = "sleep"]
          /\ polls' = [polls EXCEPT ![l] = 1]
          /\ UNCHANGED <<game, turn>>
  /\ UNCHANGED <<db, db_moves, conns, orig, board, cvars, published, rvars, ovars>>

\* Sleep giving up one poll early (range(max_wait - 1))
Sleep_ShortWindow(l) ==
  /\ pc[l] = "sleep"
  /\ IF polls[l] >= MaxWait - 1
     THEN /\ game' = [game EXCEPT ![l].is_paused = TRUE]
          /\ pc' = [pc EXCEPT ![l] = "pause_commit"]
          /\ UNCHANGED <<polls, turn>>
     ELSE IF get_subscriber_count > 0
     THEN /\ TurnTop(l, game[l], board[l])
          /\ UNCHANGED polls
     ELSE /\ polls' = [polls EXCEPT ![l] = @ + 1]
          /\ UNCHANGED <<pc, game, turn>>
  /\ UNCHANGED <<db, db_moves, conns, orig, board, move_number, cvars, published, rvars, ovars>>

\* asyncio.sleep(0.1) returns: the next iteration's check, or, after the
\* last iteration, the for loop's else branch
Sleep(l) ==
  /\ pc[l] = "sleep"
  /\ IF polls[l] >= MaxWait
     THEN /\ game' = [game EXCEPT ![l].is_paused = TRUE]
          /\ pc' = [pc EXCEPT ![l] = "pause_commit"]
          /\ UNCHANGED <<polls, turn>>
     ELSE IF get_subscriber_count > 0
     THEN /\ TurnTop(l, game[l], board[l])
          /\ UNCHANGED polls
     ELSE /\ polls' = [polls EXCEPT ![l] = @ + 1]
          /\ UNCHANGED <<pc, game, turn>>
  /\ UNCHANGED <<db, db_moves, conns, orig, board, move_number, cvars, published, rvars, ovars>>

\* the commit of is_paused = True returns; run_game returns
PauseCommit(l) ==
  /\ pc[l] = "pause_commit"
  /\ db' = Flush(db, game[l], orig[l])
  /\ Drop(l, "paused")
  /\ UNCHANGED <<db_moves, conns, cvars, published, rvars, ovars>>

\* the fallback notice without the rationale
FallbackComment_DropsRationale(move_str, comment) ==
  "[FALLBACK - LLM suggested invalid move '" \o move_str \o "']"

\* the f-string of the fallback notice
FallbackComment(move_str, comment) ==
  IF comment # NULL /\ comment # ""
  THEN "[FALLBACK - LLM suggested invalid move '" \o move_str \o "'] " \o comment
  ELSE "[FALLBACK - LLM suggested invalid move '" \o move_str \o "']"

\* the comment of the turn: the parsed one, or the fallback notice
TurnComment(parsed, was_fallback) ==
  IF was_fallback THEN FallbackComment(parsed.move, parsed.comment) ELSE parsed.comment

\* Move(game_code, move_number, color, move_uci, move_san, comment, was_fallback)
MoveRow(number, color, move, comment, was_fallback) ==
  [move_number |-> number, color |-> color,
   move_uci |-> move.uci, move_san |-> move.san,
   comment |-> comment, was_fallback |-> was_fallback]

\* schemas.MoveEvent(...) of a row and the position after the move: the
\* fields the schema declares (the other keyword arguments are dropped)
MoveEventOf(row, fen) ==
  [type |-> "move", move_number |-> row.move_number, color |-> row.color,
   move_uci |-> row.move_uci, move_san |-> row.move_san,
   comment |-> row.comment, was_fallback |-> row.was_fallback,
   board_fen |-> fen, board_ascii |-> board_ascii(fen)]

\* the session id of the response stored only while the side has none
StoreSessionId_SetOnce(g, is_white, session_id) ==
  IF session_id \notin {NULL, ""}
     /\ (IF is_white THEN g.white_session_id ELSE g.black_session_id) = NULL
  THEN IF is_white THEN [g EXCEPT !.white_session_id = session_id]
       ELSE [g EXCEPT !.black_session_id = session_id]
  ELSE g

\* lines 203-207: a session id in the response is set on the object
StoreSessionId(g, is_white, session_id) ==
  IF session_id \notin {NULL, ""}
  THEN IF is_white THEN [g EXCEPT !.white_session_id = session_id]
       ELSE [g EXCEPT !.black_session_id = session_id]
  ELSE g

\* lines 203-251: the session id, the parse of the text (re.search raises
\* TypeError on a text that is not a string), validate, fallback, push, the
\* new position on the object, the Move row added to the session.  An
\* exception ends the task with the session id set on the object only.
AfterReply(l, resp) ==
  LET is_white == Pos(board[l]).turn = "w"
      g1 == StoreSessionId(game[l], is_white, resp.session_id)
  IN  IF resp.text.type # "str"
      THEN Drop(l, "crashed")
      ELSE LET parsed == parse_chess_response(resp.text.str)
               v == validate_and_get_move(board[l], parsed.move)
           IN  IF v.kind = "raise"
               THEN Drop(l, "crashed")
               ELSE \E move \in (IF v.kind = "move" THEN {v.move}
                                 ELSE legal_moves(board[l])) :
                      LET was_fallback == v.kind = "none"
                          comment == TurnComment(parsed, was_fallback)
                          fen == push(board[l], move)
                      IN  /\ board' = [board EXCEPT ![l] = fen]
                          /\ game' = [game EXCEPT ![l] =
                                        [g1 EXCEPT !.board_fen = fen,
                                                   !.current_turn =
                                                      IF is_white THEN "black" ELSE "white"]]
                          /\ turn' = [turn EXCEPT ![l] =
                                        [active |-> TRUE, from |-> board[l],
                                         resolved |-> v.kind = "move",
                                         row |-> MoveRow(move_number[l],
                                                         IF is_white THEN "white"
                                                         ELSE "black",
                                                         move, comment, was_fallback),
                                         commentary |-> parsed.commentary,
                                         call |-> turn[l], resp |-> resp]]
                          /\ pc' = [pc EXCEPT ![l] = "move_commit"]
                          /\ UNCHANGED <<orig, move_number, polls>>

\* await call_claude_cli(...) returns what the claude process makes of the
\* call's session id; the turn goes on to the commit of the move.  The oracle
\* answers only at positions whose legal moves are tabulated.
OracleReply(l) ==
  /\ pc[l] = "oracle"
  /\ Len(db_moves) - ply0 < MaxPly
  /\ board[l] \in ExpandedFens
  /\ \E proc \in procs : AfterReply(l, call_claude_cli(proc, turn[l].session_id))
  /\ UNCHANGED <<db, db_moves, conns, cvars, published, rvars, ovars>>

\* MoveEvent(...) of the turn's row and the position after the move
MoveEvent(l) == MoveEventOf(turn[l].row, board[l])

\* broadcast of the move event, the move number, and the top of the next turn
Publish(l) ==
  /\ published' = Append(published, MoveEvent(l))
  /\ move_number' = [move_number EXCEPT ![l] =
                       IF turn[l].row.color = "black" THEN @ + 1 ELSE @]
  /\ TurnTop(l, game[l], board[l])

\* the commit of the move without db.add(db_move): no Move row is stored
MoveCommit_NoRow(l) ==
  /\ pc[l] = "move_commit"
  /\ db' = Flush(db, game[l], orig[l])
  /\ db_moves' = db_moves
  /\ orig' = [orig EXCEPT ![l] = game[l]]
  /\ IF turn[l].commentary # NULL /\ turn[l].commentary # ""
     THEN /\ pc' = [pc EXCEPT ![l] = "audio"]
          /\ UNCHANGED <<game, move_number, turn, published>>
     ELSE Publish(l)
  /\ UNCHANGED <<conns, board, polls, cvars, rvars, ovars>>

\* the commit of the move returns; with commentary the audio hook is awaited
MoveCommit(l) ==
  /\ pc[l] = "move_commit"
  /\ db' = Flush(db, game[l], orig[l])
  /\ db_moves' = Append(db_moves, turn[l].row)
  /\ orig' = [orig EXCEPT ![l] = game[l]]
  /\ IF turn[l].commentary # NULL /\ turn[l].commentary # ""
     THEN /\ pc' = [pc EXCEPT ![l] = "audio"]
          /\ UNCHANGED <<game, move_number, turn, published>>
     ELSE Publish(l)
  /\ UNCHANGED <<conns, board, polls, cvars, rvars, ovars>>

\* commentary_service.generate_audio returns
Audio(l) ==
  /\ pc[l] = "audio"
  /\ Publish(l)
  /\ UNCHANGED <<db, db_moves, conns, orig, board, polls, cvars, rvars, ovars>>

\* the commit of status = COMPLETED and result returns; game_over is broadcast
OverCommit(l) ==
  /\ pc[l] = "over_commit"
  /\ db' = Flush(db, game[l], orig[l])
  /\ published' = Append(published, [type |-> "game_over", result |-> game[l].result])
  /\ Drop(l, "finished")
  /\ UNCHANGED <<db_moves, conns, cvars, rvars, ovars>>

(***************************************************************************)
(* Request handlers of backend/main.py                                     *)
(***************************************************************************)
NoReq == [kind |-> "none"]

\* background_tasks.add_task(...) coming due: the next run_game task
Launch ==
  /\ \E l \in Loops : pc[l] = "none"
  /\ LET l == CHOOSE k \in Loops : pc[k] = "none" /\ \A j \in Loops : j < k => pc[j] # "none"
     IN  pc' = [pc EXCEPT ![l] = "start"]

\* submit_prompt: the select returns; the checks; the prompt set on the object
SubmitRead(c, color) ==
  /\ cpc[c] = "idle"
  /\ db # NoGame
  /\ db.status = "waiting_for_prompts"
  /\ IF color = "white" THEN db.white_prompt = NULL ELSE db.black_prompt = NULL
  /\ cpc' = [cpc EXCEPT ![c] = "sp_commit"]
  /\ creq' = [creq EXCEPT ![c] =
                [kind |-> "prompt", color |-> color,
                 both |-> IF color = "white" THEN db.black_prompt # NULL
                          ELSE db.white_prompt # NULL]]
  /\ UNCHANGED <<db, db_moves, conns, lvars, published, rvars, ovars>>

\* submit_prompt: the commit returns; with both prompts on the handler's
\* object the game is started as a background task, run after the response
SubmitCommit(c) ==
  /\ cpc[c] = "sp_commit"
  /\ db' = IF creq[c].color = "white" THEN [db EXCEPT !.white_prompt = "strategy"]
           ELSE [db EXCEPT !.black_prompt = "strategy"]
  /\ cpc' = [cpc EXCEPT ![c] = "idle"]
  /\ creq' = [creq EXCEPT ![c] = NoReq]
  /\ IF creq[c].both
     THEN Launch
     ELSE UNCHANGED <<pc>>
  /\ UNCHANGED <<db_moves, conns, game, orig, board, move_number, polls, turn, published, rvars, ovars>>

\* game_events: the select returns.  A paused game in progress is to be
\* resumed, and the handler first commits is_paused = False; otherwise the
\* handler returns the streaming response, whose generator has yet to run.
EventsRead(c) ==
  /\ cpc[c] = "idle"
  /\ db # NoGame
  /\ IF db.is_paused /\ db.status = "in_progress"
     THEN /\ cpc' = [cpc EXCEPT ![c] = "ev_commit"]
          /\ creq' = [creq EXCEPT ![c] = [kind |-> "events", resume |-> TRUE]]
     ELSE /\ cpc' = [cpc EXCEPT ![c] = "ev_attach"]
          /\ creq' = [creq EXCEPT ![c] = [kind |-> "events", resume |-> FALSE]]
  /\ UNCHANGED <<db, db_moves, conns, lvars, published, rvars, ovars>>

\* game_events: the commit of is_paused = False returns; resume_game is added
\* to the response's background tasks
EventsCommit(c) ==
  /\ cpc[c] = "ev_commit"
  /\ db' = [db EXCEPT !.is_paused = FALSE]
  /\ cpc' = [cpc EXCEPT ![c] = "ev_attach"]
  /\ UNCHANGED <<db_moves, conns, lvars, creq, published, rvars, ovars>>

\* the streaming response starts: the first run of the generator, in which
\* sse_manager.subscribe appends a queue
Attach(c) ==
  /\ cpc[c] = "ev_attach"
  /\ conns' = conns \cup {c}
  /\ cpc' = [cpc EXCEPT ![c] = "stream"]
  /\ UNCHANGED <<db, db_moves, lvars, creq, published, rvars, ovars>>

\* the client disconnects: subscribe's finally removes the queue; the
\* response's background tasks run once the stream has ended
Detach(c) ==
  /\ cpc[c] = "stream"
  /\ conns' = conns \ {c}
  /\ cpc' = [cpc EXCEPT ![c] = "idle"]
  /\ creq' = [creq EXCEPT ![c] = NoReq]
  /\ IF creq[c].resume
     THEN Launch
     ELSE UNCHANGED <<pc>>
  /\ UNCHANGED <<db, db_moves, game, orig, board, move_number, polls, turn, published, rvars, ovars>>

(***************************************************************************)
(* Specification                                                           *)
(***************************************************************************)
\* the Move rows of the recorded game
EndgameMoves ==
  [k \in 1..Len(GameLine) |->
     MoveRow(((k - 1) \div 2) + 1, IF k % 2 = 1 THEN "white" ELSE "black",
             GameLine[k], NULL, FALSE)]

\* the Game row of the recorded game once its loop has found no subscriber
\* at the top of white's 33rd turn and has committed is_paused = True
EndgameGame ==
  [NewGame EXCEPT !.status = "in_progress",
                  !.white_prompt = "strategy", !.black_prompt = "strategy",
                  !.board_fen = EndgameFen, !.is_paused = TRUE]

\* storage holds the row and the moves given, no task runs and no request
\* is in flight
EngineAt(row, rows) ==
  /\ db = row
  /\ db_moves = rows
  /\ conns = {}
  /\ pc = [l \in Loops |-> "none"]
  /\ game = [l \in Loops |-> NewGame]
  /\ orig = [l \in Loops |-> NewGame]
  /\ board = [l \in Loops |-> StartFen]
  /\ move_number = [l \in Loops |-> 0]
  /\ polls = [l \in Loops |-> 0]
  /\ turn = [l \in Loops |-> NoTurn]
  /\ cpc = [c \in Clients |-> "idle"]
  /\ creq = [c \in Clients |-> NoReq]
  /\ published = <<>>

\* after create_game
EngineInit == EngineAt(NewGame, <<>>)

ResolverIdle ==
  /\ r_board = StartFen
  /\ r_token = NULL
  /\ r_out = [kind |-> "idle"]

\* a game just created, or the recorded game, suspended
Init ==
  /\ \/ EngineAt(NewGame, <<>>) /\ OracleAt(<<>>)
     \/ EngineAt(EndgameGame, EndgameMoves) /\ OracleAt(EndgameMoves)
  /\ ResolverIdle /\ BusIdle /\ ParserIdle

Next ==
  \/ \E l \in Loops : LoadGame(l)
  \/ \E l \in Loops : StartCommit(l)
  \/ \E l \in Loops : CountMoves(l)
  \/ \E l \in Loops : Sleep(l)
  \/ \E l \in Loops : PauseCommit(l)
  \/ \E l \in Loops : OracleReply(l)
  \/ \E l \in Loops : MoveCommit(l)
  \/ \E l \in Loops : Audio(l)
  \/ \E l \in Loops : OverCommit(l)
  \/ \E c \in Clients, color \in {"white", "black"} : SubmitRead(c, color)
  \/ \E c \in Clients : SubmitCommit(c)
  \/ \E c \in Clients : EventsRead(c)
  \/ \E c \in Clients : EventsCommit(c)
  \/ \E c \in Clients : Attach(c)
  \/ \E c \in Clients : Detach(c)

Spec == Init /\ [][Next]_vars

(***************************************************************************)
(* The resolver on its own: every tabulated position with every token.     *)
(***************************************************************************)
ResolverInit ==
  /\ r_board \in ExpandedFens
  /\ r_token \in Tokens \cup {NULL}
  /\ r_out = [kind |-> "pending"]
  /\ EngineInit
  /\ BusIdle /\ OracleIdle /\ ParserIdle

Resolve ==
  /\ r_out.kind = "pending"
  /\ r_out' = validate_and_get_move(r_board, r_token)
  /\ UNCHANGED <<r_board, r_token, evars, ovars>>

ResolverSpec == ResolverInit /\ [][Resolve]_vars

(***************************************************************************)
(* The event bus on its own: subscribers of two game codes, broadcasts and *)
(* close_game calls in every order.                                        *)
(***************************************************************************)
BusInit == EngineInit /\ ResolverIdle /\ BusIdle /\ OracleIdle /\ ParserIdle

BusNext ==
  \/ \E s \in Subs, code \in Codes : Subscribe(s, code)
  \/ \E code \in Codes : Broadcast(code)
  \/ \E code \in Codes : CloseGame(code)
  \/ \E s \in Subs : Receive(s)
  \/ \E s \in Subs : Disconnect(s)

BusSpec == BusInit /\ [][BusNext]_vars

\* the event loop resumes a generator whose queue.get() can return
BusFairSpec == BusSpec /\ \A s \in Subs : WF_vars(Receive(s))

(***************************************************************************)
(* parse_chess_response on its own                                         *)
(***************************************************************************)
\* the lines the texts are made of
ParserLines ==
  {Line("MOVE", "g7#"),
   Line("", "I resign"),
   Line("COMMENT", "mate"),
   Line("MY_EMOTION", "predator"),
   Line("MY_EMOTION", "predator now"),
   Line("MY_EMOTION", "Predator"),
   Line("my_emotion", "eureka_moment"),
   Line("OPPONENT_EMOTION", "resigned_king"),
   Line("OPPONENT_EMOTION", "furious")}

RECURSIVE TextsUpTo(_)
TextsUpTo(n) ==
  IF n = 0 THEN {<<>>}
  ELSE TextsUpTo(n - 1) \cup
       {Append(t, l) : t \in {u \in TextsUpTo(n - 1) : Len(u) = n - 1}, l \in ParserLines}

ParserTexts == TextsUpTo(MaxLines)

ParserInit ==
  /\ p_text \in ParserTexts
  /\ p_out = [kind |-> "pending"]
  /\ EngineInit /\ ResolverIdle /\ BusIdle /\ OracleIdle

Parse ==
  /\ p_out.kind = "pending"
  /\ p_out' = [kind |-> "returned", value |-> parse_chess_response(p_text)]
  /\ UNCHANGED <<p_text, evars, rvars, bvars, ocvars, ivars>>

ParserSpec == ParserInit /\ [][Parse]_vars

(***************************************************************************)
(* One turn of run_game from the oracle call on, for every behaviour of    *)
(* the claude process                                                      *)
(***************************************************************************)
\* the turns looked at: the position and the Move rows stored on the way to
\* it.  A new game's first turn, the recorded game's next turn, and black's
\* turn after each of white's moves in it that do not end the game.
OracleTurns ==
  {[fen |-> StartFen, rows |-> <<>>], [fen |-> EndgameFen, rows |-> EndgameMoves]}
    \cup {[fen |-> m.fen,
           rows |-> Append(EndgameMoves,
                           MoveRow((Len(EndgameMoves) \div 2) + 1, "white", m, NULL, FALSE))] :
             m \in {n \in legal_moves(EndgameFen) : ~is_game_over(n.fen)}}

\* the session ids the Game row can hold at a turn: none before the first
\* Move row is committed, since they are committed with it
StoredSessionIds(rows) ==
  IF rows = <<>> THEN {[white |-> NULL, black |-> NULL]}
  ELSE [white : {NULL, "s1"}, black : {NULL, "s9"}]

\* the Game row of a match in progress at a turn
GameAt(t, sid) ==
  [NewGame EXCEPT !.status = "in_progress",
                  !.white_prompt = "strategy", !.black_prompt = "strategy",
                  !.white_session_id = sid.white, !.black_session_id = sid.black,
                  !.board_fen = t.fen,
                  !.current_turn = IF Pos(t.fen).turn = "w" THEN "white" ELSE "black"]

\* task 1 is suspended in call_claude_cli with one subscriber attached; the
\* claude process behaves in one way
OracleInit ==
  /\ \E t \in OracleTurns :
       \E sid \in StoredSessionIds(t.rows) :
         /\ db = GameAt(t, sid)
         /\ db_moves = t.rows
         /\ game = [l \in Loops |-> IF l = 1 THEN GameAt(t, sid) ELSE NewGame]
         /\ orig = [l \in Loops |-> IF l = 1 THEN GameAt(t, sid) ELSE NewGame]
         /\ board = [l \in Loops |-> IF l = 1 THEN t.fen ELSE StartFen]
         /\ move_number = [l \in Loops |-> IF l = 1 THEN (Len(t.rows) \div 2) + 1 ELSE 0]
         /\ turn = [l \in Loops |-> IF l = 1 THEN OracleCall(GameAt(t, sid), t.fen)
                                    ELSE NoTurn]
  /\ conns = {"c1"}
  /\ pc = [l \in Loops |-> IF l = 1 THEN "oracle" ELSE "none"]
  /\ polls = [l \in Loops |-> 0]
  /\ cpc = [c \in Clients |-> IF c = "c1" THEN "stream" ELSE "idle"]
  /\ creq = [c \in Clients |-> IF c = "c1" THEN [kind |-> "events", resume |-> FALSE]
                                ELSE NoReq]
  /\ published = <<>>
  /\ procs \in {{p} : p \in ProcOutcomes}
  /\ ply0 = Len(db_moves)
  /\ ResolverIdle /\ BusIdle /\ ParserIdle

OracleNext ==
  \/ \E l \in Loops : OracleReply(l)
  \/ \E l \in Loops : MoveCommit(l)
  \/ \E l \in Loops : Audio(l)
  \/ \E l \in Loops : OverCommit(l)

OracleSpec == OracleInit /\ [][OracleNext]_vars

(***************************************************************************)
(* run_game called on what storage holds for its game code                 *)
(***************************************************************************)
\* storage when run_game is called: no game of that code, a game whose two
\* prompts have just been stored, a game in progress to be resumed that has
\* no move yet, and the recorded game to be resumed
StoredGames ==
  {[row |-> NoGame, rows |-> <<>>],
   [row |-> [NewGame EXCEPT !.white_prompt = "strategy", !.black_prompt = "strategy"],
    rows |-> <<>>],
   [row |-> [NewGame EXCEPT !.white_prompt = "strategy", !.black_prompt = "strategy",
                            !.status = "in_progress"],
    rows |-> <<>>],
   [row |-> [EndgameGame EXCEPT !.is_paused = FALSE], rows |-> EndgameMoves]}

RunGameInit ==
  /\ \E s \in StoredGames : db = s.row /\ db_moves = s.rows
  /\ conns \in SUBSET Clients
  /\ pc = [l \in Loops |-> IF l = 1 THEN "start" ELSE "none"]
  /\ game = [l \in Loops |-> NewGame]
  /\ orig = [l \in Loops |-> NewGame]
  /\ board = [l \in Loops |-> StartFen]
  /\ move_number = [l \in Loops |-> 0]
  /\ polls = [l \in Loops |-> 0]
  /\ turn = [l \in Loops |-> NoTurn]
  /\ cpc = [c \in Clients |-> IF c \in conns THEN "stream" ELSE "idle"]
  /\ creq = [c \in Clients |-> IF c \in conns THEN [kind |-> "events", resume |-> FALSE]
                                ELSE NoReq]
  /\ published = <<>>
  /\ OracleAt(db_moves)
  /\ ResolverIdle /\ BusIdle /\ ParserIdle

RunGameNext ==
  \/ \E l \in Loops : LoadGame(l)
  \/ \E l \in Loops : StartCommit(l)
  \/ \E l \in Loops : CountMoves(l)
  \/ \E l \in Loops : Sleep(l)
  \/ \E l \in Loops : PauseCommit(l)
  \/ \E l \in Loops : OracleReply(l)
  \/ \E l \in Loops : MoveCommit(l)
  \/ \E l \in Loops : Audio(l)
  \/ \E l \in Loops : OverCommit(l)
  \/ \E c \in Clients : EventsRead(c)
  \/ \E c \in Clients : EventsCommit(c)
  \/ \E c \in Clients : Attach(c)
  \/ \E c \in Clients : Detach(c)

RunGameSpec == RunGameInit /\ [][RunGameNext]_vars

(***************************************************************************)
(* The session ids through suspend and resume: a recorded game stored      *)
(* paused, with or without session ids, resumed by game_events requests.   *)
(***************************************************************************)
SessionInit ==
  /\ \E sid \in StoredSessionIds(EndgameMoves) :
       EngineAt([EndgameGame EXCEPT !.white_session_id = sid.white,
                                    !.black_session_id = sid.black], EndgameMoves)
  /\ procs = SessionProcs
  /\ ply0 = Len(EndgameMoves)
  /\ ResolverIdle /\ BusIdle /\ ParserIdle

SessionSpec == SessionInit /\ [][RunGameNext]_vars

(***************************************************************************)
(* broadcast put by put: the for loop over the code's list, with the other *)
(* coroutines running only where an await suspends                         *)
(***************************************************************************)
\* asyncio.Queue() of subscribe: maxsize 0, a queue that is never full
maxsize == 0

\* Queue.full() of a queue made with asyncio.Queue(maxsize=1)
full_Bounded(q) == Len(queues[q]) >= 1

\* Queue.full()
full(q) == maxsize > 0 /\ Len(queues[q]) >= maxsize

NoBroadcast == [kind |-> "none", code |-> NULL, item |-> NULL, idx |-> 0]

\* the list the for loop iterates: the code's list object, empty once
\* subscribe's finally has removed its last queue
IterList == IF bcast.code \in DOMAIN connections THEN connections[bcast.code] ELSE <<>>

\* the event loop can run another coroutine: no broadcast is under way, or
\* its queue.put waits for a free slot
Yielded ==
  IF bcast.kind = "none" THEN TRUE
  ELSE bcast.idx <= Len(IterList) /\ full(IterList[bcast.idx])

\* broadcast(game_code, event) up to the for loop
BroadcastStart(code) ==
  /\ bcast.kind = "none"
  /\ Len(bus_log) < MaxBusOps
  /\ LET msg == sse_message(Payloads[Len(bus_log) + 1])
     IN  /\ bus_log' = Append(bus_log, [op |-> "broadcast", code |-> code, item |-> msg,
                                        count |-> Cardinality(Attached(code))])
         /\ bcast' = IF code \notin DOMAIN connections THEN NoBroadcast
                     ELSE [kind |-> "iter", code |-> code, item |-> msg, idx |-> 1]
  /\ UNCHANGED <<connections, queues, sub, received, evars, rvars, ocvars, pvars>>

\* the for loop's next step: the list iterator's next queue and
\* await queue.put(sse_message), or the end of the list
BroadcastPut ==
  /\ bcast.kind = "iter"
  /\ IF bcast.idx > Len(IterList)
     THEN /\ bcast' = NoBroadcast
          /\ UNCHANGED queues
     ELSE /\ ~full(IterList[bcast.idx])
          /\ queues' = [queues EXCEPT ![IterList[bcast.idx]] = Append(@, bcast.item)]
          /\ bcast' = [bcast EXCEPT !.idx = @ + 1]
  /\ UNCHANGED <<connections, sub, received, bus_log, evars, rvars, ocvars, pvars>>

IterInit == BusInit

\* the other coroutines, run where the event loop can run them
IterSubscribe(s, code) == Yielded /\ Subscribe(s, code)
IterReceive(s) == Yielded /\ Receive(s)
IterDisconnect(s) == Yielded /\ Disconnect(s)

IterNext ==
  \/ \E code \in Codes : BroadcastStart(code)
  \/ BroadcastPut
  \/ \E s \in Subs, code \in Codes : IterSubscribe(s, code)
  \/ \E s \in Subs : IterReceive(s)
  \/ \E s \in Subs : IterDisconnect(s)

IterSpec == IterInit /\ [][IterNext]_vars

(***************************************************************************)
(* Properties                                                              *)
(***************************************************************************)
\* Stored moves replayed from a position, k of them replayed before: the
\* position they lead to, or "unreplayable" when a stored move cannot be
\* played.  A move is played as the next ply of the recorded game when it
\* is that ply, and else as the tabulated move of its uci.
RECURSIVE ReplayFrom(_, _, _)
ReplayFrom(fen, rows, k) ==
  IF rows = <<>> THEN fen
  ELSE LET r == Head(rows)
           hit == {m \in legal_moves(fen) : m.uci = r.move_uci}
       IN  IF /\ k < Len(GameLine)
              /\ fen = (IF k = 0 THEN StartFen ELSE GameLine[k].fen)
              /\ r.move_uci = GameLine[k + 1].uci
           THEN ReplayFrom(GameLine[k + 1].fen, Tail(rows), k + 1)
           ELSE IF fen \notin ExpandedFens THEN "unreplayable"
           ELSE IF r.move_uci = "0000"
           THEN ReplayFrom(Pos(fen).null_fen, Tail(rows), k + 1)
           ELSE IF hit = {} THEN "unreplayable"
           ELSE ReplayFrom((CHOOSE m \in hit : TRUE).fen, Tail(rows), k + 1)

\* chess.Board() with the stored moves pushed in order
Replay(rows) == ReplayFrom(StartFen, rows, 0)

SideToMove(fen) == IF Pos(fen).turn = "w" THEN "white" ELSE "black"

\* The outcomes of the top of a turn
TopPcs == {"oracle", "pause_commit", "over_commit"}

\* C1: at every moment at most one run_game task is executing for the match.
C1_AtMostOneLoop ==
  Cardinality({l \in Loops : Running(l)}) <= 1

\* C2: every move a turn applies and records is a legal move of the position
\* it is applied to, and the record's was_fallback is true exactly when the
\* resolver returned no move.
C2_AppliedMoveIsLegal ==
  \A l \in Loops :
    turn[l].active =>
      /\ \E m \in legal_moves(turn[l].from) :
           /\ m.uci = turn[l].row.move_uci
           /\ m.san = turn[l].row.move_san
           /\ m.fen = board[l]
      /\ turn[l].row.was_fallback <=> ~turn[l].resolved

\* C3: validate_and_get_move never raises; the SAN and the UCI of a legal
\* move resolve to that move; a null or empty token is unresolved.
C3_ResolverTotal ==
  r_out.kind \notin {"idle", "pending"} =>
    /\ r_out.kind \in {"move", "none"}
    /\ \A m \in legal_moves(r_board) : r_token \in {m.san, m.uci} => r_out = Moved(m)
    /\ r_token \in {NULL, ""} => r_out = NoMove

\* C4: a turn that has called the oracle goes on to a move: the oracle call
\* is followed by the turn's move record being committed.
C4_OracleCallYieldsMove ==
  [][\A l \in Loops :
       pc[l] = "oracle" /\ pc'[l] # "oracle" =>
         pc'[l] = "move_commit" /\ turn'[l].active]_vars

\* C5: the stored match is suspended only while its status is in_progress.
C5_PausedOnlyInProgress ==
  db.is_paused => db.status = "in_progress"

\* C6: the stored moves replayed from the start position give the stored
\* position and the stored side to move.
C6_ReplayGivesStoredPosition ==
  /\ Replay(db_moves) = db.board_fen
  /\ db.current_turn = SideToMove(db.board_fen)

\* C7: the match becomes completed only on a terminal position, and once it
\* is completed its status, result, position and moves never change and no
\* further event is published.
C7_CompletedIsFinal ==
  [][/\ db.status # "completed" /\ db'.status = "completed"
          => is_game_over(db'.board_fen)
     /\ db.status = "completed"
          => /\ db'.status = "completed"
             /\ db'.result = db.result
             /\ db'.board_fen = db.board_fen
             /\ db_moves' = db_moves
             /\ published' = published]_vars

\* C8: the move record that makes the position terminal is never stored
\* while the status is not completed or the result is null.
C8_TerminalRecordWithResult ==
  db_moves # <<>> /\ is_game_over(db.board_fen) =>
    db.status = "completed" /\ db.result # NULL

\* C9: a loop in the waiting window leaves it either at a poll that finds a
\* subscriber, for the top of the first turn with is_paused false, or after
\* MaxWait polls that all found none, to mark the match paused; the commit
\* that follows stores is_paused and the task ends, with no oracle call, no
\* move stored, no event published and the position untouched.
C9_WaitingWindow ==
  [][\A l \in Loops :
       /\ pc[l] \in {"count", "sleep"} /\ pc'[l] \notin {"count", "sleep"} =>
            \/ /\ get_subscriber_count > 0
               /\ pc'[l] \in {"oracle", "over_commit"}
               /\ ~game'[l].is_paused
               /\ game'[l].status \in {"in_progress", "completed"}
            \/ /\ polls[l] = MaxWait
               /\ pc'[l] = "pause_commit"
               /\ game'[l].is_paused
               /\ board'[l] = board[l]
               /\ <<db, db_moves, published>>' = <<db, db_moves, published>>
       /\ pc[l] = "sleep" /\ pc'[l] = "sleep" /\ polls'[l] # polls[l] =>
            get_subscriber_count = 0 /\ polls'[l] = polls[l] + 1
       /\ pc[l] = "pause_commit" /\ polls[l] = MaxWait /\ pc'[l] # "pause_commit" =>
            /\ pc'[l] = "paused"
            /\ db'.is_paused
            /\ db'.board_fen = db.board_fen
            /\ db_moves' = db_moves
            /\ published' = published]_vars

C9_Witness ==
  \E l \in Loops : pc[l] = "pause_commit" /\ polls[l] = MaxWait /\ conns = {}

\* C10: a loop that ends a turn in a position that is not terminal, with no
\* subscriber attached, marks the match paused instead of calling the
\* oracle; the commit that follows stores is_paused and the task ends, with
\* no move stored, no event published and the position untouched.
C10_PauseAtTurnTop ==
  [][\A l \in Loops :
       /\ /\ pc[l] \in {"move_commit", "audio"}
          /\ pc'[l] \in TopPcs
          /\ ~is_game_over(board[l])
          /\ get_subscriber_count = 0
          => /\ pc'[l] = "pause_commit"
             /\ game'[l].is_paused
             /\ board'[l] = board[l]
             /\ published' = Append(published, MoveEvent(l))
       /\ pc[l] = "pause_commit" /\ polls[l] < MaxWait /\ pc'[l] # "pause_commit" =>
            /\ pc'[l] = "paused"
            /\ db'.is_paused
            /\ db'.board_fen = db.board_fen
            /\ db_moves' = db_moves
            /\ published' = published]_vars

C10_Witness ==
  \E l \in Loops :
    /\ pc[l] = "pause_commit" /\ polls[l] < MaxWait
    /\ Len(db_moves) > ply0 /\ conns = {} /\ ~is_game_over(board[l])

\* ---------------------------------------------------------------------
\* Event bus
\* ---------------------------------------------------------------------

IsPrefix(a, b) == Len(a) <= Len(b) /\ a = SubSeq(b, 1, Len(a))

\* the calls for the subscriber's code made while its queue was listed
CallsFor(s) ==
  LET hi == IF sub[s].to = -1 THEN Len(bus_log) ELSE sub[s].to
  IN  SelectSeq(SubSeq(bus_log, sub[s].from + 1, hi),
                LAMBDA c : c.code = sub[s].code)

ItemsOf(calls) == [i \in 1..Len(calls) |-> calls[i].item]

\* the events broadcast for the subscriber's code while it was attached
EventsFor(s) == ItemsOf(SelectSeq(CallsFor(s), LAMBDA c : c.op = "broadcast"))

RECURSIVE UntilClose(_)
UntilClose(calls) ==
  IF calls = <<>> \/ Head(calls).op = "close_game" THEN <<>>
  ELSE <<Head(calls)>> \o UntilClose(Tail(calls))

\* the events broadcast for the subscriber's code while it was attached and
\* before the first close_game of that code
EventsBeforeClose(s) == ItemsOf(UntilClose(CallsFor(s)))

BroadcastStep ==
  /\ Len(bus_log') = Len(bus_log) + 1
  /\ bus_log'[Len(bus_log')].op = "broadcast"

CloseStep ==
  /\ Len(bus_log') = Len(bus_log) + 1
  /\ bus_log'[Len(bus_log')].op = "close_game"

LastCall == bus_log[Len(bus_log)]

\* C11: a subscriber receives the events broadcast for its code between its
\* attachment and its detachment, in broadcast order, each once, and none
\* from before it attached: what it has received is always a prefix of those
\* events, and it has received all of them once its queue is drained or its
\* sequence has ended.
C11_ReceivesEveryEventInOrder ==
  \A s \in Subs :
    /\ IsPrefix(received[s], EventsFor(s))
    /\ (sub[s].pc = "get" /\ queues[s] = <<>>) => received[s] = EventsFor(s)
    /\ sub[s].pc = "ended" => received[s] = EventsFor(s)

\* C12: broadcast(code, event) puts exactly one copy of the event on the
\* queue of every subscriber attached to the code when it is called, and
\* leaves the queue of every other subscriber as it was.
C12_BroadcastEnqueuesOnce ==
  [][BroadcastStep =>
       LET call == bus_log'[Len(bus_log')]
       IN  \A q \in Subs :
             queues'[q] = IF q \in Attached(call.code)
                          THEN Append(queues[q], call.item)
                          ELSE queues[q]]_vars

C12_Witness ==
  /\ bus_log # <<>>
  /\ LastCall.op = "broadcast"
  /\ \E s, t \in Subs :
       /\ s \in Attached(LastCall.code)
       /\ queues[s] # <<>>
       /\ queues[s][Len(queues[s])] = LastCall.item
       /\ sub[t].pc = "get"
       /\ sub[t].code # LastCall.code
       /\ queues[t] = <<>>

SeqRange(q) == {q[i] : i \in 1..Len(q)}

\* C13: a broadcast to a code with no attached subscriber changes nothing in
\* the event bus (no entry for the code, nothing queued), and its event is
\* never on the queue of, or received by, any subscriber, including those
\* that attach later.
C13_BroadcastToNobodyIsLost ==
  /\ [](/\ \A c \in DOMAIN connections : connections[c] # <<>>
        /\ \A i \in 1..Len(bus_log) :
             (bus_log[i].op = "broadcast" /\ bus_log[i].count = 0) =>
               \A s \in Subs : /\ bus_log[i].item \notin SeqRange(queues[s])
                               /\ bus_log[i].item \notin SeqRange(received[s]))
  /\ [][(BroadcastStep /\ Attached(bus_log'[Len(bus_log')].code) = {}) =>
          /\ connections' = connections
          /\ queues' = queues
          /\ sub' = sub
          /\ received' = received]_vars

C13_Witness ==
  /\ Len(bus_log) >= 2
  /\ bus_log[1].op = "broadcast"
  /\ bus_log[1].count = 0
  /\ \E s \in Subs :
       /\ sub[s].pc = "get"
       /\ sub[s].code = bus_log[1].code
       /\ sub[s].from >= 1
       /\ received[s] # <<>>

\* C14: get_subscriber_count(code) is the number of subscribers attached to
\* the code and not yet detached, the code's list holds exactly their
\* queues, each once, and a code without attached subscribers has no entry.
C14_CountIsAttached ==
  \A code \in Codes :
    /\ subscriber_count(code) = Cardinality(Attached(code))
    /\ Listed(code) = Attached(code)
    /\ (code \in DOMAIN connections) = (Attached(code) # {})

C14_Witness ==
  \E s, t \in Subs :
    /\ sub[s].pc \in {"closed", "ended"}
    /\ sub[t].pc = "get"
    /\ sub[t].code = sub[s].code
    /\ subscriber_count(sub[t].code) = 1

\* a close_game call of the subscriber's code was made while it is attached
Closing(s) ==
  /\ sub[s].pc = "get"
  /\ \E i \in 1..Len(CallsFor(s)) : CallsFor(s)[i].op = "close_game"

\* C15: close_game(code) puts the end marker on the queue of every
\* subscriber attached to the code and touches no other queue; a subscriber
\* whose sequence ended has received exactly the events broadcast before the
\* close and is no longer listed, and every subscriber attached at the call
\* eventually ends (or has disconnected before).
C15_CloseEndsEverySubscriber ==
  /\ [](\A s \in Subs :
          sub[s].pc = "ended" =>
            /\ received[s] = EventsBeforeClose(s)
            /\ s \notin Listed(sub[s].code)
            /\ \E i \in 1..Len(CallsFor(s)) : CallsFor(s)[i].op = "close_game")
  /\ [][CloseStep =>
          LET call == bus_log'[Len(bus_log')]
          IN  /\ \A q \in Subs :
                   queues'[q] = IF q \in Attached(call.code)
                                THEN Append(queues[q], NULL)
                                ELSE queues[q]
              /\ connections' = connections
              /\ sub' = sub
              /\ received' = received]_vars
  /\ \A s \in Subs : Closing(s) ~> (sub[s].pc \in {"ended", "closed"})

C15_Witness ==
  \E s, t \in Subs :
    /\ sub[s].pc = "ended"
    /\ received[s] # <<>>
    /\ sub[t].pc = "get"
    /\ sub[t].code # sub[s].code
    /\ NULL \notin SeqRange(queues[t])

\* ---------------------------------------------------------------------
\* Turn order
\* ---------------------------------------------------------------------

\* the move events broadcast so far, in broadcast order
MoveEvents == SelectSeq(published, LAMBDA e : e.type = "move")

\* the event's position follows from the position `fen' by the event's move
OnePly(fen, e) ==
  /\ fen \in ExpandedFens
  /\ e.color = SideToMove(fen)
  /\ \/ \E m \in legal_moves(fen) : m.uci = e.move_uci /\ push(fen, m) = e.board_fen
     \/ e.move_uci = "0000" /\ Pos(fen).null_fen = e.board_fen

\* C16: the move events of the match are broadcast in turn order: the first
\* follows from the position the match had when no event was broadcast yet
\* and each next one from the position of the one before it by one ply of
\* the side to move, so sides alternate and no ply is broadcast twice.
C16_MoveEventsInTurnOrder ==
  \A i \in 1..Len(MoveEvents) :
    OnePly(IF i = 1 THEN Replay(SubSeq(db_moves, 1, ply0))
           ELSE MoveEvents[i - 1].board_fen,
           MoveEvents[i])

\* C18: the k-th stored move record has move_number ceil(k/2) and colour
\* white for odd k, black for even k.
C18_RecordIndexAndSide ==
  \A k \in 1..Len(db_moves) :
    /\ db_moves[k].move_number = (k + 1) \div 2
    /\ db_moves[k].color = IF k % 2 = 1 THEN "white" ELSE "black"

\* C20: when a run_game task stops executing, the stored match is completed
\* or suspended.
C20_ExitOnlyCompletedOrPaused ==
  [][\A l \in Loops :
       (Running(l) /\ ~Running(l)') => (db'.status = "completed" \/ db'.is_paused)]_vars

\* ---------------------------------------------------------------------
\* Parser
\* ---------------------------------------------------------------------

\* what the emotion pattern extracts from the text: the first token of the
\* first line with the label, or NULL
Extracted(text, label) ==
  LET at == {i \in 1..Len(text) : UpperLabel(text[i].label) = label}
  IN  IF at = {} THEN NULL
      ELSE first_token(text[CHOOSE i \in at : \A j \in at : i <= j].value)

EmotionOk(text, label, out) ==
  LET x == Extracted(text, label)
  IN  /\ out \in VALID_EMOTIONS \cup {NULL}
      /\ x = NULL => out = NULL
      /\ x \in VALID_EMOTIONS => out = x
      /\ (x # NULL /\ x \notin VALID_EMOTIONS) => out = "stone_wall"

\* C19: parse_chess_response returns for every text; each emotion field is
\* NULL when its label is absent, the extracted value when that is one of
\* the nine tags, and stone_wall otherwise.
C19_EmotionsValidated ==
  p_out.kind \notin {"idle", "pending"} =>
    /\ p_out.kind = "returned"
    /\ EmotionOk(p_text, "MY_EMOTION", p_out.value.my_emotion)
    /\ EmotionOk(p_text, "OPPONENT_EMOTION", p_out.value.opponent_emotion)

C19_Witness ==
  /\ p_out.kind = "returned"
  /\ Extracted(p_text, "MY_EMOTION") = "Predator"
  /\ p_out.value.my_emotion = "stone_wall"
  /\ p_out.value.opponent_emotion = "resigned_king"

\* ---------------------------------------------------------------------
\* Oracle failures
\* ---------------------------------------------------------------------

\* the process was not found, raised, exited non-zero, or printed something
\* other than a JSON object with a text result
OracleFailed(proc) ==
  \/ proc.kind \in {"not_found", "exception"}
  \/ proc.returncode # 0
  \/ proc.json # "object"
  \/ "result" \notin DOMAIN proc.data
  \/ proc.data.result.type # "str"

\* C17: after a failed oracle call the turn goes on to a move, and to the
\* fallback move when the response text is empty; nothing is raised into
\* run_game.
C17_FailedCallYieldsMove ==
  [][\A l \in Loops : \A proc \in procs :
       (pc[l] = "oracle" /\ pc'[l] # "oracle" /\ procs = {proc} /\ OracleFailed(proc)) =>
         /\ pc'[l] = "move_commit"
         /\ turn'[l].active
         /\ call_claude_cli(proc, turn[l].session_id).text = JStr(<<>>) =>
              turn'[l].row.was_fallback]_vars

\* ---------------------------------------------------------------------
\* Session ids
\* ---------------------------------------------------------------------

Sides == {"white", "black"}

Truthy(x) == x \notin {NULL, ""}

\* the session id a Game row or object holds for a side
SessionId(g, side) == IF side = "white" THEN g.white_session_id ELSE g.black_session_id

\* C21 as stated: a side's stored session id, once set, is never changed.
C21_TokenSetOnce ==
  [][\A side \in Sides :
       SessionId(db, side) # NULL => SessionId(db', side) = SessionId(db, side)]_vars

\* C21 amended: an oracle call passes the session id the task's Game object
\* holds for the side to move (and a system prompt only when it holds none),
\* never the other side's; a task that starts, resumed ones included, takes
\* both session ids from the stored row; a session id in the response
\* replaces the side's on the object, without one it stays, and the other
\* side's is not touched; the commit of the move stores a session id that
\* differs from the one passed; a turn that ends in an exception stores
\* nothing; the stored session ids change in no other step and are never
\* cleared.
C21_TokenFollowsResponse ==
  /\ [](\A l \in Loops :
          pc[l] = "oracle" =>
            /\ turn[l].session_id = SessionId(game[l], SideToMove(board[l]))
            /\ turn[l].system_prompt = ~Truthy(SessionId(game[l], SideToMove(board[l]))))
  /\ [][/\ \A l \in Loops :
            /\ (pc[l] = "start" /\ pc'[l] = "start_commit") =>
                 \A s \in Sides : SessionId(game'[l], s) = SessionId(db, s)
            /\ (pc[l] = "oracle" /\ pc'[l] = "move_commit") =>
                 LET side == SideToMove(board[l])
                 IN  /\ SessionId(game'[l], side) =
                          IF Truthy(turn'[l].resp.session_id)
                          THEN turn'[l].resp.session_id ELSE SessionId(game[l], side)
                     /\ \A other \in Sides \ {side} :
                          SessionId(game'[l], other) = SessionId(game[l], other)
            /\ (pc[l] = "oracle" /\ pc'[l] = "crashed") =>
                 \A s \in Sides : SessionId(db', s) = SessionId(db, s)
            /\ (pc[l] = "move_commit" /\ pc'[l] # "move_commit") =>
                 LET side == turn[l].row.color
                     new == turn[l].resp.session_id
                 IN  SessionId(db', side) =
                       IF Truthy(new) /\ new # turn[l].call.session_id
                       THEN new ELSE SessionId(db, side)
       /\ \A s \in Sides :
            SessionId(db', s) # SessionId(db, s) =>
              /\ Truthy(SessionId(db', s))
              /\ \E l \in Loops :
                   /\ pc[l] = "move_commit" /\ pc'[l] # "move_commit"
                   /\ turn[l].row.color = s
                   /\ turn[l].resp.session_id = SessionId(db', s)]_vars

\* a task resumed on the paused game passed white's stored session id s1,
\* the response returned s2, and the commit of the move stored s2 in its
\* place; black's session id is as stored
C21_Witness ==
  \E l \in Loops :
    /\ pc[l] = "audio"
    /\ Len(db_moves) = ply0 + 1
    /\ turn[l].call.session_id = "s1"
    /\ ~turn[l].call.system_prompt
    /\ turn[l].resp.session_id = "s2"
    /\ db.white_session_id = "s2"
    /\ db.black_session_id = "s9"

\* ---------------------------------------------------------------------
\* Fallback notice
\* ---------------------------------------------------------------------

Notice(move_str) == "[FALLBACK - LLM suggested invalid move '" \o move_str \o "']"

\* the comment the turn is to store and publish
Rationale(parsed, resolved) ==
  IF resolved THEN parsed.comment
  ELSE IF Truthy(parsed.comment) THEN Notice(parsed.move) \o " " \o parsed.comment
  ELSE Notice(parsed.move)

\* C22: the comment of the move record and of the move event is the parsed
\* comment when the resolver returned a move (was_fallback false), and the
\* fallback notice followed by the parsed comment, if any, when it returned
\* none (was_fallback true).
C22_FallbackNotice ==
  [][\A l \in Loops :
       LET parsed == parse_chess_response(turn[l].resp.text.str)
           resolved == validate_and_get_move(turn[l].from, parsed.move).kind = "move"
       IN  /\ (pc[l] = "move_commit" /\ pc'[l] # "move_commit") =>
                /\ db_moves'[Len(db_moves')].comment = Rationale(parsed, resolved)
                /\ db_moves'[Len(db_moves')].was_fallback = ~resolved
           /\ (pc[l] \in {"move_commit", "audio"} /\ pc'[l] \in TopPcs) =>
                /\ published'[Len(published')].comment = Rationale(parsed, resolved)
                /\ published'[Len(published')].was_fallback = ~resolved]_vars

C22_Witness ==
  /\ Len(db_moves) = ply0 + 1
  /\ db_moves[Len(db_moves)].was_fallback
  /\ db_moves[Len(db_moves)].comment = "[FALLBACK - LLM suggested invalid move 'hello'] hmm"
  /\ Len(MoveEvents) = 1
  /\ MoveEvents[1].was_fallback
  /\ MoveEvents[1].comment = "[FALLBACK - LLM suggested invalid move 'hello'] hmm"

\* ---------------------------------------------------------------------
\* run_game without a stored game
\* ---------------------------------------------------------------------

\* C23: run_game called for a game code that is not stored returns at
\* once: storage stays without the game and without moves, no event is
\* broadcast, and the task gets neither to the oracle nor to any commit.
C23_NotFoundNoEffect ==
  /\ [](db = NoGame =>
          /\ db_moves = <<>>
          /\ published = <<>>
          /\ \A l \in Loops : pc[l] \in {"none", "start", "not_found"})
  /\ [][db = NoGame => db' = NoGame]_vars

C23_Witness ==
  /\ db = NoGame
  /\ \E l \in Loops : pc[l] = "not_found"

\* ---------------------------------------------------------------------
\* Suspension at the turn boundary
\* ---------------------------------------------------------------------

\* a turn under way is carried through: the move is committed, the move
\* event broadcast, and only then is the top of the next turn reached
TurnCarriedThrough(l) ==
  /\ (pc[l] = "move_commit" /\ pc'[l] # "move_commit") =>
       /\ Len(db_moves') = Len(db_moves) + 1
       /\ pc'[l] \in {"audio"} \cup TopPcs
  /\ (pc[l] = "audio" /\ pc'[l] # "audio") => pc'[l] \in TopPcs
  /\ (pc[l] \in {"move_commit", "audio"} /\ pc'[l] \in TopPcs) =>
       /\ Len(published') = Len(published) + 1
       /\ published'[Len(published')].type = "move"

\* the task turns to suspending only where the subscriber count is read:
\* in the waiting window and at the top of a turn
SuspendAtTop(l) ==
  /\ (pc'[l] = "pause_commit" /\ pc[l] # "pause_commit") =>
       pc[l] \in {"count", "sleep", "move_commit", "audio"}
  /\ (pc[l] \in TurnPcs /\ pc'[l] \in TurnPcs) => ~game'[l].is_paused

\* C24: once the top of a turn has seen a subscriber and the oracle is
\* called, the turn commits its move and broadcasts its move event whatever
\* the subscribers do meanwhile, and the task suspends only at the top of a
\* turn.
C24_SuspendOnlyAtTurnTop ==
  [][\A l \in Loops :
       /\ (pc[l] = "oracle" /\ pc'[l] # "oracle") =>
            (pc'[l] = "move_commit" /\ turn'[l].active)
       /\ TurnCarriedThrough(l)
       /\ SuspendAtTop(l)]_vars

\* ---------------------------------------------------------------------
\* The list under a broadcast
\* ---------------------------------------------------------------------

\* C25: while a broadcast iterates the code's list no subscriber attaches
\* or detaches, and once it has returned every subscriber attached to the
\* code holds, received or queued, exactly the events broadcast since it
\* attached, each once and in order.
C25_ListStableUnderBroadcast ==
  /\ [](bcast.kind = "none" =>
          \A s \in Subs : sub[s].pc = "get" => received[s] \o queues[s] = EventsFor(s))
  /\ [][bcast.kind = "iter" => (connections' = connections /\ sub' = sub)]_vars

C25_Witness ==
  /\ bcast.kind = "iter"
  /\ bcast.idx = 2
  /\ Len(IterList) = 2
  /\ \E s \in Subs : sub[s].pc = "get" /\ Len(queues[s]) = 2

\* ---------------------------------------------------------------------
\* Secondary pass of the parser
\* ---------------------------------------------------------------------

\* the first move-shaped substring of a line, as the pattern of
\* parse_llm_response finds it
MoveShaped(value) ==
  CASE value = "g7 wins" -> "g7"
    [] value \in {"g7#", "g7+"} -> "g7"
    [] value = "f7" -> "f7"
    [] OTHER -> NULL

\* the first move-shaped substring of a text without MOVE: label
RECURSIVE SecondaryPass(_)
SecondaryPass(text) ==
  IF text = <<>> THEN NULL
  ELSE IF MoveShaped(Head(text).value) # NULL THEN MoveShaped(Head(text).value)
  ELSE SecondaryPass(Tail(text))

\* C26: a response without MOVE: label whose first move-shaped substring
\* names a legal move is played as that move, not as a fallback.
C26_LabelFreeMoveIsPlayed ==
  [][\A l \in Loops : \A proc \in procs :
       LET text == call_claude_cli(proc, turn[l].session_id).text
           token == SecondaryPass(text.str)
       IN  (/\ pc[l] = "oracle" /\ pc'[l] # "oracle" /\ procs = {proc}
            /\ text.type = "str"
            /\ \A i \in 1..Len(text.str) : UpperLabel(text.str[i].label) # "MOVE"
            /\ token # NULL
            /\ validate_and_get_move(board[l], token).kind = "move") =>
             /\ pc'[l] = "move_commit"
             /\ ~turn'[l].row.was_fallback
             /\ turn'[l].row.move_uci =
                  validate_and_get_move(board[l], token).move.uci]_vars

\* ---------------------------------------------------------------------
\* Subscribers, suspension and launches
\* ---------------------------------------------------------------------

\* a run_game task is to be started: a game_events handler is committing
\* the resume, or holds resume_game among its response's background tasks
ResumeScheduled ==
  \E c \in Clients : cpc[c] \in {"ev_commit", "ev_attach", "stream"} /\ creq[c].resume

\* C27: no subscriber is attached to a suspended match in progress while
\* no run_game task is executing or scheduled for it.
C27_NoSubscriberOnSuspended ==
  (conns # {} /\ db.status = "in_progress" /\ db.is_paused) =>
    ((\E l \in Loops : Running(l)) \/ ResumeScheduled)

\* C28: the match is not left waiting for prompts with both prompts stored,
\* no submit_prompt request under way and no run_game task started.
C28_BothPromptsLaunch ==
  (/\ db.status = "waiting_for_prompts"
   /\ db.white_prompt # NULL
   /\ db.black_prompt # NULL
   /\ \A c \in Clients : cpc[c] # "sp_commit") =>
    \E l \in Loops : pc[l] # "none"

\* the move records stored since the start, as a set
AddedRows == {db_moves[k] : k \in (ply0 + 1)..Len(db_moves)}

\* the move event has the values of the move record
EventOfRow(e, row) ==
  /\ e.move_number = row.move_number
  /\ e.color = row.color
  /\ e.move_uci = row.move_uci
  /\ e.move_san = row.move_san
  /\ e.was_fallback = row.was_fallback

\* C29: every move event broadcast has a stored move record with its
\* move number, colour, notations and fallback flag; the commit of a move
\* stores the record together with the position and the side to move, and
\* the move event is broadcast after that commit with that position.
C29_PersistBeforePublish ==
  /\ [](\A i \in 1..Len(MoveEvents) : \E row \in AddedRows : EventOfRow(MoveEvents[i], row))
  /\ [][\A l \in Loops :
          /\ (pc[l] = "move_commit" /\ pc'[l] # "move_commit") =>
               /\ db_moves' = Append(db_moves, turn[l].row)
               /\ db'.board_fen = board[l]
               /\ db'.current_turn = SideToMove(board[l])
          /\ (pc[l] \in {"move_commit", "audio"} /\ pc'[l] \in TopPcs) =>
               /\ turn[l].row \in {db_moves'[k] : k \in 1..Len(db_moves')}
               /\ EventOfRow(published'[Len(published')], turn[l].row)
               /\ published'[Len(published')].board_fen = board[l]
               /\ published'[Len(published')].board_ascii = board_ascii(board[l])]_vars

C29_Witness ==
  /\ Len(MoveEvents) = 1
  /\ Len(db_moves) = ply0 + 1
  /\ MoveEvents[1].was_fallback
  /\ MoveEvents[1].move_number = db_moves[Len(db_moves)].move_number
  /\ db.board_fen = MoveEvents[1].board_fen
=============================================================================
